---- MODULE Spec2Model ----
(***************************************************************************)
(* Pixel Colony: the tick-driven colony simulation of src/utils/gameLogic.ts *)
(* (createInitialState, placeBuilding, updateGameState) and the external   *)
(* requests of the application shell (handleAction: BLESS, CYCLE_ROLE).     *)
(*                                                                         *)
(* Every Math.random() comparison of the code is a nondeterministic choice *)
(* here.  Cosmetic fields that no branch of the code reads (name, color,   *)
(* traits, inventory, sword, thought, timestamps, log ids) are left out.   *)
(***************************************************************************)
EXTENDS Integers, Sequences, FiniteSets, TLC

(***************************************************************************)
(* Bounds of the model.  The program's world is 50 x 40 with five agents;  *)
(* the model explores a smaller world with fewer agents.                   *)
(***************************************************************************)
MAP_WIDTH == 9
MAP_HEIGHT == 8
NumAgents == 2
TickWindow == 2
MaxRequests == 1
MaxRareDraws == 1

(***************************************************************************)
(* Program constants.                                                      *)
(***************************************************************************)
LCG_MULT == 9301
LCG_INC == 49297
LCG_MOD == 233280
CENTER_RADIUS == 3
LOG_CAP == 50
PICKAXE_WOOD == 10
CRAFT_TICKS == 30
BUILD_TICKS == 10
BUILD_INCREMENT == 10
FARM_TICKS == 50
FARM_RESET_TICKS == 100
FARM_FOOD == 5
GATHER_TICKS == 20
GATHER_YIELD == 5
APPLE_FOOD == 3
FOOD_LOSS == 2
MAX_PROGRESS == 100
START_FOOD == 20
START_HEALTH == 100
WEATHER_PERIOD == 500
FATE_PERIOD == 100
BLESS_COST == 5
BLESS_HEAL == 50
SPAWN_SPREAD == 3
WANDER_SPAN == 5
WANDER_SHIFT == 2

TileType == {"GRASS", "FOREST", "MOUNTAIN", "WATER", "SAND", "FLOOR", "WALL"}
NPCState == {"IDLE", "MOVING", "GATHERING", "BUILDING", "SLEEPING", "FIGHTING",
             "CRAFTING", "FARMING"}
NPCRole == {"WORKER", "GUARD", "EXPLORER", "BUILDER", "FARMER"}
StructureType == {"BASE", "WAREHOUSE", "TOWER", "FARM", "HOUSE"}
ResourceType == {"WOOD", "STONE", "FOOD", "FATE"}
Weather == {"SUNNY", "RAIN", "NIGHT"}

BUILDING_COSTS ==
  [ BASE      |-> [WOOD |-> 0,  STONE |-> 0,  FOOD |-> 0],
    WAREHOUSE |-> [WOOD |-> 50, STONE |-> 0,  FOOD |-> 0],
    TOWER     |-> [WOOD |-> 20, STONE |-> 50, FOOD |-> 0],
    FARM      |-> [WOOD |-> 30, STONE |-> 10, FOOD |-> 0],
    HOUSE     |-> [WOOD |-> 40, STONE |-> 0,  FOOD |-> 0] ]

(***************************************************************************)
(* Small helpers for the JavaScript arithmetic the code uses.              *)
(***************************************************************************)
Abs(n) == IF n < 0 THEN -n ELSE n
Sign(n) == IF n > 0 THEN 1 ELSE IF n < 0 THEN -1 ELSE 0
Min(a, b) == IF a < b THEN a ELSE b
Max(a, b) == IF a > b THEN a ELSE b
\* JavaScript %: the remainder takes the sign of the dividend
JsRem(a, n) == IF a >= 0 THEN a % n ELSE -((-a) % n)
\* Math.floor(n / 2) for n >= 0
Half(n) == n \div 2

Pos(x, y) == [x |-> x, y |-> y]
\* targetPos: null
NullPos == [x |-> -1, y |-> -1]
\* selectedEntityId: null
NullId == "null"

distance(p1, p2) == Abs(p1.x - p2.x) + Abs(p1.y - p2.y)

(***************************************************************************)
(* PseudoRandom and generateMap.  rngStates(seed, n) is the sequence of    *)
(* the generator's states after 1..n calls of next(); next() returns       *)
(* state / 233280, so a comparison rand < c is a comparison of the state   *)
(* with c * 233280 (11664, 46656, 58320, 62985.6).                         *)
(***************************************************************************)
\* (a * 9301) mod 233280 for a >= 0, the product taken in two parts (9301 =
\* 93 * 100 + 1) to stay inside the model checker's integers; the code's
\* doubles hold the product exactly
LcgMulMod(a) == (((a * (LCG_MULT \div 100)) % LCG_MOD) * 100 + a * (LCG_MULT % 100)) % LCG_MOD

\* this.seed = (this.seed * 9301 + 49297) % 233280, with JavaScript's %: a
\* negative dividend gives a negative remainder
PseudoRandomNext(seed) ==
  IF seed >= 0 THEN (LcgMulMod(seed) + LCG_INC) % LCG_MOD
  ELSE IF (-seed) <= LCG_INC \div LCG_MULT THEN JsRem(seed * LCG_MULT + LCG_INC, LCG_MOD)
  ELSE -((LcgMulMod(-seed) - LCG_INC) % LCG_MOD)

RECURSIVE rngStates(_, _)
rngStates(seed, n) ==
  IF n = 0 THEN << >>
  ELSE LET s == PseudoRandomNext(seed) IN << s >> \o rngStates(s, n - 1)

\* rand < 0.05, < 0.20, < 0.25, < 0.27 on rand = s / 233280
tileOfDraw(s) ==
  IF s * 100 < 5 * LCG_MOD THEN "MOUNTAIN"
  ELSE IF s * 100 < 20 * LCG_MOD THEN "FOREST"
  ELSE IF s * 100 < 25 * LCG_MOD THEN "WATER"
  ELSE IF s * 100 < 27 * LCG_MOD THEN "SAND"
  ELSE "GRASS"

\* a faulty variant of clearedForBase that clears a block one tile smaller
clearedForBase_Smaller(cx, cy, x, y) ==
  /\ y >= cy - CENTER_RADIUS + 1 /\ y <= cy + CENTER_RADIUS - 1
  /\ x >= cx - CENTER_RADIUS + 1 /\ x <= cx + CENTER_RADIUS - 1

\* Ensure center is clear for base: y = cy-3..cy+3, x = cx-3..cx+3
clearedForBase(cx, cy, x, y) ==
  /\ y >= cy - CENTER_RADIUS /\ y <= cy + CENTER_RADIUS
  /\ x >= cx - CENTER_RADIUS /\ x <= cx + CENTER_RADIUS

generateMap(w, h, seed) ==
  LET draws == rngStates(seed, w * h)
      cx == Half(w)
      cy == Half(h)
  IN [y \in 0..(h - 1) |-> [x \in 0..(w - 1) |->
        IF clearedForBase(cx, cy, x, y)
        THEN "GRASS"
        ELSE tileOfDraw(draws[y * w + x + 1])]]

(***************************************************************************)
(* Log entries: the message kind and the severity the code attaches to it. *)
(***************************************************************************)
LogEntry(msg, type) == [msg |-> msg, type |-> type]
LogInit == LogEntry("arrived", "INFO")
LogBuild == LogEntry("construction_started", "INFO")
LogWeather == LogEntry("weather", "INFO")
LogCrafted == LogEntry("crafted", "SUCCESS")
LogComplete == LogEntry("complete", "SUCCESS")
LogGathered == LogEntry("gathered", "SUCCESS")
LogBird == LogEntry("bird", "INFO")
LogRats == LogEntry("rats", "DANGER")
LogBless == LogEntry("blessed", "SUCCESS")
LogRole == LogEntry("role", "INFO")

VARIABLES
  map,              \* GameState.map[y][x]
  npcs,             \* GameState.npcs
  buildings,        \* GameState.buildings
  resources,        \* GameState.resources
  logs,             \* GameState.logs, most recent first
  tickCount,        \* GameState.tickCount
  weather,          \* GameState.weather
  selectedEntityId, \* GameState.selectedEntityId
  requests,         \* external requests applied so far in this run
  rare,             \* rare random draws (world event, apple, logged yield) so far
  lastOp,           \* the operation that produced this state, and its outcome
  touched           \* the fields of the state object passed to that operation
                    \* that differ once it has returned

vars == << map, npcs, buildings, resources, logs, tickCount, weather,
           selectedEntityId, requests, rare, lastOp, touched >>

\* the GameState object held by the application
GameState ==
  [ map |-> map, npcs |-> npcs, buildings |-> buildings,
    resources |-> resources, logs |-> logs, tickCount |-> tickCount,
    weather |-> weather, selectedEntityId |-> selectedEntityId ]

\* lastOp: op names the handler; x, y, kind, id are its inputs; ok tells whether
\* it changed the world and why names the return taken when it did not; ev lists,
\* for a tick, the branch each agent took, and event the random world event
Op(op, x, y, kind, id, ok, why, ev, event) ==
  [op |-> op, x |-> x, y |-> y, kind |-> kind, id |-> id, ok |-> ok,
   why |-> why, ev |-> ev, event |-> event]
NoOp == Op("none", 0, 0, "", NullId, FALSE, "", << >>, "")


(***************************************************************************)
(* createInitialState.  offsets[i] is the pair of signed draws             *)
(* (Math.random() > 0.5 ? 1 : -1) * Math.floor(Math.random() * 3) of agent *)
(* i.  The code spawns five agents; the model spawns NumAgents.            *)
(***************************************************************************)
NpcIds == << "npc_0", "npc_1", "npc_2", "npc_3", "npc_4", "npc_5" >>
BaseId == "base_01"
BuildingId == "bld"

Center == Pos(Half(MAP_WIDTH), Half(MAP_HEIGHT))

SpawnDraws == (1 - SPAWN_SPREAD)..(SPAWN_SPREAD - 1)

\* a faulty variant of newNpc that makes the second agent the Guard
newNpc_SecondIsGuard(i, off) ==
  [ id |-> NpcIds[i + 1],
    pos |-> Pos(Center.x + off[1], Center.y + off[2]),
    state |-> "IDLE",
    targetPos |-> NullPos,
    health |-> START_HEALTH,
    maxHealth |-> START_HEALTH,
    role |-> IF i = 1 THEN "GUARD" ELSE "WORKER",
    pickaxe |-> FALSE,
    actionTimer |-> 0 ]

newNpc(i, off) ==
  [ id |-> NpcIds[i + 1],
    pos |-> Pos(Center.x + off[1], Center.y + off[2]),
    state |-> "IDLE",
    targetPos |-> NullPos,
    health |-> START_HEALTH,
    maxHealth |-> START_HEALTH,
    role |-> IF i = 0 THEN "GUARD" ELSE "WORKER",
    pickaxe |-> FALSE,
    actionTimer |-> 0 ]

baseBuilding ==
  [ id |-> BaseId,
    pos |-> Center,
    structureType |-> "BASE",
    completed |-> TRUE,
    constructionProgress |-> MAX_PROGRESS,
    maxConstructionProgress |-> MAX_PROGRESS ]

\* createInitialState with the loop for (let i = 0; i < n; i++) npcs.push(...)
colonyOf(n, seed, offsets) ==
  [ map |-> generateMap(MAP_WIDTH, MAP_HEIGHT, seed),
    npcs |-> [i \in 1..n |-> newNpc(i - 1, offsets[i])],
    buildings |-> << baseBuilding >>,
    resources |-> [WOOD |-> 0, STONE |-> 0, FOOD |-> START_FOOD, FATE |-> 0],
    logs |-> << LogInit >>,
    tickCount |-> 0,
    weather |-> "SUNNY",
    selectedEntityId |-> NullId ]

\* the colony the model runs: NumAgents agents in place of the code's five
createInitialState(seed, offsets) == colonyOf(NumAgents, seed, offsets)

\* Spawn 5 Dwarves
SPAWN_COUNT == 5

\* startNewGame: createInitialState(newGameName, seed) as the code has it
startNewGame(seed, offsets) == colonyOf(SPAWN_COUNT, seed, offsets)

(***************************************************************************)
(* placeBuilding.  The result is the value returned (ok = FALSE for null)  *)
(* together with arg, the state object that was passed in as the call      *)
(* leaves it: the code copies state and state.resources before it writes,  *)
(* and replaces buildings and logs by new arrays, so arg is state.         *)
(***************************************************************************)
\* a faulty variant of buildingAt that finds no building anywhere
buildingAt_Never(bs, x, y) == \E i \in DOMAIN bs : FALSE

buildingAt(bs, x, y) == \E i \in DOMAIN bs : bs[i].pos.x = x /\ bs[i].pos.y = y

outOfBounds(x, y) == x < 0 \/ x >= MAP_WIDTH \/ y < 0 \/ y >= MAP_HEIGHT

\* a faulty variant of blockedTerrain that lets buildings stand on Mountain
blockedTerrain_WaterOnly(m, x, y) == m[y][x] = "WATER"

blockedTerrain(m, x, y) == m[y][x] = "WATER" \/ m[y][x] = "MOUNTAIN"

\* cost[r] && state.resources[r] < cost[r], for WOOD, STONE, FOOD
cannotAfford(res, cost) ==
  \/ (cost.WOOD # 0 /\ res.WOOD < cost.WOOD)
  \/ (cost.STONE # 0 /\ res.STONE < cost.STONE)
  \/ (cost.FOOD # 0 /\ res.FOOD < cost.FOOD)

\* a faulty variant of deductCost that forgets the Stone of the cost
deductCost_WoodOnly(res, cost) == [res EXCEPT !.WOOD = @ - cost.WOOD]

\* the deductions of a successful placement: Wood and Stone only
deductCost(res, cost) ==
  [res EXCEPT !.WOOD = @ - cost.WOOD, !.STONE = @ - cost.STONE]

newBuilding(x, y, type) ==
  [ id |-> BuildingId,
    pos |-> Pos(x, y),
    structureType |-> type,
    completed |-> FALSE,
    constructionProgress |-> 0,
    maxConstructionProgress |-> MAX_PROGRESS ]

\* the first failing check of the validation chain, "" when all pass
placeBuildingRejection(state, x, y, type) ==
  IF outOfBounds(x, y) THEN "bounds"
  ELSE IF buildingAt(state.buildings, x, y) THEN "collision"
  ELSE IF blockedTerrain(state.map, x, y) THEN "terrain"
  ELSE IF cannotAfford(state.resources, BUILDING_COSTS[type]) THEN "cost"
  ELSE ""

\* a faulty variant of placeBuilding that writes the Wood deduction into the
\* state it was given before it looks at the Stone balance
placeBuilding_DeductsEarly(state, x, y, type) ==
  LET cost == BUILDING_COSTS[type]
      why == placeBuildingRejection(state, x, y, type)
      woodPaid == [state EXCEPT !.resources.WOOD =
                     IF @ >= cost.WOOD THEN @ - cost.WOOD ELSE @]
  IN IF why = "cost"
     THEN [ok |-> FALSE, state |-> woodPaid, arg |-> woodPaid]
     ELSE IF why # ""
     THEN [ok |-> FALSE, state |-> state, arg |-> state]
     ELSE [ok |-> TRUE,
           state |-> [state EXCEPT
                        !.resources = deductCost(@, cost),
                        !.buildings = Append(@, newBuilding(x, y, type)),
                        !.logs = << LogBuild >> \o @],
           arg |-> woodPaid]

placeBuilding(state, x, y, type) ==
  IF placeBuildingRejection(state, x, y, type) # ""
  THEN [ok |-> FALSE, state |-> state, arg |-> state]
  ELSE [ok |-> TRUE,
        state |-> [state EXCEPT
                     !.resources = deductCost(@, BUILDING_COSTS[type]),
                     !.buildings = Append(@, newBuilding(x, y, type)),
                     !.logs = << LogBuild >> \o @],
        arg |-> state]

(***************************************************************************)
(* Helpers of the game loop.                                               *)
(***************************************************************************)
\* the scan of findNearestTile: rows outer, columns inner, strict "<", so
\* the first tile of least distance in (y, x) order wins; NullPos for null
findNearestTile(m, start, type) ==
  LET h == Cardinality(DOMAIN m)
      w == Cardinality(DOMAIN m[0])
      cand == {p \in {Pos(x, y) : x \in 0..(w - 1), y \in 0..(h - 1)} :
                 m[p.y][p.x] = type}
      Before(p, q) == p.y < q.y \/ (p.y = q.y /\ p.x <= q.x)
  IN IF cand = {} THEN NullPos
     ELSE CHOOSE p \in cand : \A q \in cand :
            \/ distance(start, p) < distance(start, q)
            \/ (distance(start, p) = distance(start, q) /\ Before(p, q))

\* the elements of an array
Range(seq) == { seq[k] : k \in DOMAIN seq }

\* findNearestEntity over the building list: the index of the first entity
\* of least distance that passes the filter, 0 for null; passing is the set
\* of the entities the filter accepts
findNearestEntity(entities, start, passing) ==
  LET cand == {i \in DOMAIN entities : entities[i] \in passing}
  IN IF cand = {} THEN 0
     ELSE CHOOSE i \in cand : \A j \in cand :
            \/ distance(start, entities[i].pos) < distance(start, entities[j].pos)
            \/ (distance(start, entities[i].pos) = distance(start, entities[j].pos)
                /\ i <= j)

\* Array.prototype.find / findIndex: the first index passing the test, 0 if
\* none; passing is the set of the elements the test accepts
findFirst(seq, passing) ==
  LET cand == {i \in DOMAIN seq : seq[i] \in passing}
  IN IF cand = {} THEN 0 ELSE CHOOSE i \in cand : \A j \in cand : i <= j

isIncomplete(b) == ~b.completed
isCompletedFarm(b) == b.structureType = "FARM" /\ b.completed
isBase(b) == b.structureType = "BASE"

\* a faulty variant of moveTowards that steps along the x-axis on a tie
moveTowards_TiesToX(npc, target) ==
  LET dx == target.x - npc.pos.x
      dy == target.y - npc.pos.y
  IN IF Abs(dx) >= Abs(dy)
     THEN [npc.pos EXCEPT !.x = @ + Sign(dx)]
     ELSE [npc.pos EXCEPT !.y = @ + Sign(dy)]

\* a faulty variant of moveTowards that steps along both axes at once
moveTowards_Diagonal(npc, target) ==
  LET dx == target.x - npc.pos.x
      dy == target.y - npc.pos.y
  IN [npc.pos EXCEPT !.x = @ + Sign(dx), !.y = @ + Sign(dy)]

moveTowards(npc, target) ==
  LET dx == target.x - npc.pos.x
      dy == target.y - npc.pos.y
  IN IF Abs(dx) > Abs(dy)
     THEN [npc.pos EXCEPT !.x = @ + Sign(dx)]
     ELSE [npc.pos EXCEPT !.y = @ + Sign(dy)]

\* a faulty variant of wanderCoord without the clamp to the map
wanderCoord_Unclamped(c, limit, draw) == c + draw - WANDER_SHIFT

\* Math.max(0, Math.min(limit - 1, c + Math.floor(Math.random() * 5) - 2))
\* a faulty variant of wanderCoord that clamps to the limit itself, one past
\* the last row or column
wanderCoord_ClampedToLimit(c, limit, draw) ==
  Max(0, Min(limit, c + draw - WANDER_SHIFT))

wanderCoord(c, limit, draw) == Max(0, Min(limit - 1, c + draw - WANDER_SHIFT))

\* the values of Math.floor(Math.random() * 5) the model draws: the two ends
\* of 0..4
WanderDraws == { 0, WANDER_SPAN - 1 }

wanderTargets(pos) ==
  { Pos(wanderCoord(pos.x, MAP_WIDTH, rx), wanderCoord(pos.y, MAP_HEIGHT, ry)) :
      rx \in WanderDraws, ry \in WanderDraws }

(***************************************************************************)
(* One agent in one tick.  w is the part of newState an agent reads and    *)
(* writes (map, buildings, resources, logs) as the agents before it in the *)
(* list have left it, with w.rare the rare draws of the run so far.  Each  *)
(* operator returns the set of outcomes [w, npc, ev] its random draws      *)
(* allow; ev names the branch taken.                                       *)
(***************************************************************************)
Out(w, npc, ev) == [w |-> w, npc |-> npc, ev |-> ev]

\* a rare draw (the world event, an apple, a logged yield) comes out TRUE at
\* most MaxRareDraws times in a run
rareDraw(w) == IF w.rare < MaxRareDraws THEN BOOLEAN ELSE {FALSE}

\* the count of rare draws after the draws ds
drawn(w, ds) == [w EXCEPT !.rare = @ + Cardinality({k \in DOMAIN ds : ds[k]})]

wander(w, npc, ev) ==
  { Out(w, [npc EXCEPT !.targetPos = t, !.state = "MOVING"], ev) :
      t \in wanderTargets(npc.pos) }

idleBuilder(w, npc) ==
  LET site == findNearestEntity(w.buildings, npc.pos,
                                {b \in Range(w.buildings) : isIncomplete(b)})
  IN IF site # 0
     THEN { Out(w, [npc EXCEPT !.targetPos = w.buildings[site].pos,
                               !.state = "MOVING"], "seek_site") }
     ELSE wander(w, npc, "wander")

idleFarmer(w, npc) ==
  LET farm == findNearestEntity(w.buildings, npc.pos,
                                {b \in Range(w.buildings) : isCompletedFarm(b)})
  IN IF farm # 0
     THEN { Out(w, [npc EXCEPT !.targetPos = w.buildings[farm].pos,
                               !.state = "MOVING"], "seek_farm") }
     ELSE wander(w, npc, "wander")

\* a faulty variant of idleWorkerTile that looks for the wrong kind of tile
idleWorkerTile_WrongTile(w, npc, targetType) ==
  LET target == findNearestTile(w.map, npc.pos, "MOUNTAIN")
  IN IF target # NullPos
     THEN { Out(w, [npc EXCEPT !.targetPos = target, !.state = "MOVING"],
                IF targetType = "FOREST" THEN "seek_forest" ELSE "seek_mountain") }
     ELSE wander(w, npc, "wander")

idleWorkerTile(w, npc, targetType) ==
  LET target == findNearestTile(w.map, npc.pos, targetType)
  IN IF target # NullPos
     THEN { Out(w, [npc EXCEPT !.targetPos = target, !.state = "MOVING"],
                IF targetType = "FOREST" THEN "seek_forest" ELSE "seek_mountain") }
     ELSE wander(w, npc, "wander")

idleWorker(w, npc) ==
  LET needsCrafting == ~npc.pickaxe /\ w.resources.WOOD >= PICKAXE_WOOD
      \* Math.random() > 0.5 ? FOREST : MOUNTAIN when the agent has a pickaxe
      targetTypes == IF npc.pickaxe THEN {"FOREST", "MOUNTAIN"} ELSE {"FOREST"}
      base == findFirst(w.buildings, {b \in Range(w.buildings) : isBase(b)})
  IN IF needsCrafting
     THEN IF base # 0
          THEN { Out(w, [npc EXCEPT !.targetPos = w.buildings[base].pos,
                                    !.state = "MOVING"], "seek_base") }
          ELSE { Out(w, npc, "stay") }
     ELSE UNION { idleWorkerTile(w, npc, tt) : tt \in targetTypes }

\* Guard or others: Math.random() < 0.2 wanders, otherwise nothing happens
idleOther(w, npc) == { Out(w, npc, "stay") } \cup wander(w, npc, "wander")

npcIdle(w, npc) ==
  IF npc.role = "BUILDER" THEN idleBuilder(w, npc)
  ELSE IF npc.role = "FARMER" THEN idleFarmer(w, npc)
  ELSE IF npc.role = "WORKER" THEN idleWorker(w, npc)
  ELSE idleOther(w, npc)

\* a faulty variant of arrive that looks at the tile of the target before it
\* looks for a building there
arrive_TileFirst(w, npc) ==
  LET t == npc.targetPos
      atTarget(b) == b.pos.x = t.x /\ b.pos.y = t.y
      baseAtTarget(b) == isBase(b) /\ atTarget(b)
      base == findFirst(w.buildings, {b \in Range(w.buildings) : baseAtTarget(b)})
      bi == findFirst(w.buildings, {b \in Range(w.buildings) : atTarget(b)})
      tile == w.map[t.y][t.x]
  IN IF tile = "FOREST" \/ tile = "MOUNTAIN"
     THEN Out(w, [npc EXCEPT !.state = "GATHERING", !.actionTimer = GATHER_TICKS],
              "arrive_gather")
     ELSE IF /\ base # 0 /\ ~npc.pickaxe /\ npc.role = "WORKER"
             /\ w.resources.WOOD >= PICKAXE_WOOD
     THEN Out(w, [npc EXCEPT !.state = "CRAFTING", !.actionTimer = CRAFT_TICKS],
              "arrive_craft")
     ELSE IF bi # 0 /\ ~w.buildings[bi].completed /\ npc.role = "BUILDER"
     THEN Out(w, [npc EXCEPT !.state = "BUILDING", !.actionTimer = BUILD_TICKS],
              "arrive_build")
     ELSE IF /\ bi # 0 /\ w.buildings[bi].structureType = "FARM"
             /\ w.buildings[bi].completed /\ npc.role = "FARMER"
     THEN Out(w, [npc EXCEPT !.state = "FARMING", !.actionTimer = FARM_TICKS],
              "arrive_farm")
     ELSE Out(w, [npc EXCEPT !.state = "IDLE", !.targetPos = NullPos],
              "arrive_idle")

\* arrival: distance(pos, targetPos) <= 1
arrive(w, npc) ==
  LET t == npc.targetPos
      atTarget(b) == b.pos.x = t.x /\ b.pos.y = t.y
      baseAtTarget(b) == isBase(b) /\ atTarget(b)
      base == findFirst(w.buildings, {b \in Range(w.buildings) : baseAtTarget(b)})
      bi == findFirst(w.buildings, {b \in Range(w.buildings) : atTarget(b)})
      tile == w.map[t.y][t.x]
  IN IF /\ base # 0 /\ ~npc.pickaxe /\ npc.role = "WORKER"
        /\ w.resources.WOOD >= PICKAXE_WOOD
     THEN Out(w, [npc EXCEPT !.state = "CRAFTING", !.actionTimer = CRAFT_TICKS],
              "arrive_craft")
     ELSE IF bi # 0 /\ ~w.buildings[bi].completed /\ npc.role = "BUILDER"
     THEN Out(w, [npc EXCEPT !.state = "BUILDING", !.actionTimer = BUILD_TICKS],
              "arrive_build")
     ELSE IF /\ bi # 0 /\ w.buildings[bi].structureType = "FARM"
             /\ w.buildings[bi].completed /\ npc.role = "FARMER"
     THEN Out(w, [npc EXCEPT !.state = "FARMING", !.actionTimer = FARM_TICKS],
              "arrive_farm")
     ELSE IF tile = "FOREST" \/ tile = "MOUNTAIN"
     THEN Out(w, [npc EXCEPT !.state = "GATHERING", !.actionTimer = GATHER_TICKS],
              "arrive_gather")
     ELSE Out(w, [npc EXCEPT !.state = "IDLE", !.targetPos = NullPos],
              "arrive_idle")

npcMoving(w, npc) ==
  IF npc.targetPos = NullPos
  THEN { Out(w, [npc EXCEPT !.state = "IDLE"], "no_target") }
  ELSE IF distance(npc.pos, npc.targetPos) <= 1
  THEN { arrive(w, npc) }
  ELSE { Out(w, [npc EXCEPT !.pos = moveTowards(npc, npc.targetPos)], "move") }

\* a faulty variant of npcCrafting that pays for the pickaxe without looking
\* at the Wood balance
npcCrafting_Unchecked(w, npc) ==
  LET n1 == [npc EXCEPT !.actionTimer = @ - 1]
  IN IF n1.actionTimer <= 0
     THEN { Out([w EXCEPT !.resources.WOOD = @ - PICKAXE_WOOD,
                          !.logs = << LogCrafted >> \o @],
                [n1 EXCEPT !.pickaxe = TRUE, !.state = "IDLE"], "craft_ok") }
     ELSE { Out(w, n1, "craft_wait") }

\* a faulty variant of npcCrafting that keeps the agent at the bench when the
\* Wood is lacking
npcCrafting_StaysOnFailure(w, npc) ==
  LET n1 == [npc EXCEPT !.actionTimer = @ - 1]
  IN IF n1.actionTimer <= 0
     THEN IF w.resources.WOOD >= PICKAXE_WOOD
          THEN { Out([w EXCEPT !.resources.WOOD = @ - PICKAXE_WOOD,
                               !.logs = << LogCrafted >> \o @],
                     [n1 EXCEPT !.pickaxe = TRUE, !.state = "IDLE"], "craft_ok") }
          ELSE { Out(w, n1, "craft_fail") }
     ELSE { Out(w, n1, "craft_wait") }

npcCrafting(w, npc) ==
  LET n1 == [npc EXCEPT !.actionTimer = @ - 1]
  IN IF n1.actionTimer <= 0
     THEN IF w.resources.WOOD >= PICKAXE_WOOD
          THEN { Out([w EXCEPT !.resources.WOOD = @ - PICKAXE_WOOD,
                               !.logs = << LogCrafted >> \o @],
                     [n1 EXCEPT !.pickaxe = TRUE, !.state = "IDLE"], "craft_ok") }
          ELSE { Out(w, [n1 EXCEPT !.state = "IDLE"], "craft_fail") }
     ELSE { Out(w, n1, "craft_wait") }

\* a faulty variant of whack that completes a building only above its maximum
whack_StrictlyAbove(b) ==
  LET p == b.constructionProgress + BUILD_INCREMENT
  IN [b EXCEPT !.constructionProgress = p,
               !.completed = IF p > b.maxConstructionProgress THEN TRUE ELSE @]

\* a faulty variant of whack that counts every whack twice
whack_Twice(b) ==
  LET p == b.constructionProgress + 2 * BUILD_INCREMENT
  IN [b EXCEPT !.constructionProgress = p,
               !.completed = IF p >= b.maxConstructionProgress THEN TRUE ELSE @]

\* a faulty variant of whack that never marks the building completed
whack_NeverCompletes(b) ==
  [b EXCEPT !.constructionProgress = @ + BUILD_INCREMENT]

\* the building after one whack
whack(b) ==
  LET p == b.constructionProgress + BUILD_INCREMENT
  IN [b EXCEPT !.constructionProgress = p,
               !.completed = IF p >= b.maxConstructionProgress THEN TRUE ELSE @]

npcBuilding(w, npc) ==
  LET n1 == [npc EXCEPT !.actionTimer = @ - 1]
      t == npc.targetPos
      atTarget(b) == t # NullPos /\ b.pos.x = t.x /\ b.pos.y = t.y
      bi == findFirst(w.buildings, {b \in Range(w.buildings) : atTarget(b)})
      b == whack(w.buildings[bi])
      w1 == IF bi = 0 THEN w
            ELSE [w EXCEPT !.buildings[bi] = b,
                           !.logs = IF b.constructionProgress >= b.maxConstructionProgress
                                    THEN << LogComplete >> \o @ ELSE @]
      done == bi # 0 /\ w1.buildings[bi].completed
  IN IF n1.actionTimer <= 0
     THEN { Out(w1, [n1 EXCEPT !.actionTimer = BUILD_TICKS,
                               !.state = IF done THEN "IDLE" ELSE @],
                IF bi = 0 THEN "build_lost"
                ELSE IF done THEN "build_done" ELSE "build_hit") }
     ELSE { Out(w, n1, "build_wait") }

\* a faulty variant of npcFarming that waits for the next harvest as long as
\* for the first
npcFarming_ShortReset(w, npc) ==
  LET n1 == [npc EXCEPT !.actionTimer = @ - 1]
      w1 == [w EXCEPT !.resources.FOOD = @ + FARM_FOOD]
      n2 == [n1 EXCEPT !.actionTimer = FARM_TICKS]
  IN IF n1.actionTimer <= 0
     THEN { Out(w1, n2, "farm_stay"),
            Out(w1, [n2 EXCEPT !.state = "IDLE"], "farm_leave") }
     ELSE { Out(w, n1, "farm_wait") }

npcFarming(w, npc) ==
  LET n1 == [npc EXCEPT !.actionTimer = @ - 1]
      w1 == [w EXCEPT !.resources.FOOD = @ + FARM_FOOD]
      n2 == [n1 EXCEPT !.actionTimer = FARM_RESET_TICKS]
  IN IF n1.actionTimer <= 0
     THEN { Out(w1, n2, "farm_stay"),
            Out(w1, [n2 EXCEPT !.state = "IDLE"], "farm_leave") }
     ELSE { Out(w, n1, "farm_wait") }

\* the end of every resolved Gathering that does not return early
gatherEnd(w, npc, ev, logged) ==
  Out(IF logged THEN [w EXCEPT !.logs = << LogGathered >> \o @] ELSE w,
      [npc EXCEPT !.state = "IDLE", !.targetPos = NullPos], ev)

\* a faulty variant of gatherForest that yields twice the Wood
gatherForest_DoubleYield(w, npc) ==
  LET t == npc.targetPos
  IN { gatherEnd(
         [drawn(w, << apple, lucky >>) EXCEPT
            !.resources.WOOD = @ + 2 * GATHER_YIELD,
            !.resources.FOOD = IF apple THEN @ + APPLE_FOOD ELSE @,
            !.map[t.y][t.x] = IF felled THEN "GRASS" ELSE @],
         npc, "gather_wood", lucky \/ apple) :
       apple \in rareDraw(w), felled \in BOOLEAN, lucky \in rareDraw(w) }

gatherForest(w, npc) ==
  LET t == npc.targetPos
  IN { gatherEnd(
         [drawn(w, << apple, lucky >>) EXCEPT
            !.resources.WOOD = @ + GATHER_YIELD,
            !.resources.FOOD = IF apple THEN @ + APPLE_FOOD ELSE @,
            !.map[t.y][t.x] = IF felled THEN "GRASS" ELSE @],
         npc, "gather_wood", lucky \/ apple) :
       apple \in rareDraw(w), felled \in BOOLEAN, lucky \in rareDraw(w) }

\* a faulty variant of gatherMountain in which a mined tile grows over
gatherMountain_TurnsToGrass(w, npc) ==
  LET t == npc.targetPos
  IN IF npc.pickaxe
     THEN { gatherEnd(
              [drawn(w, << lucky >>) EXCEPT
                 !.resources.STONE = @ + GATHER_YIELD,
                 !.map[t.y][t.x] = IF mined THEN "GRASS" ELSE @],
              npc, "gather_stone", lucky) :
            mined \in BOOLEAN, lucky \in rareDraw(w) }
     ELSE { Out(w, [npc EXCEPT !.state = "IDLE"], "gather_nopick") }

gatherMountain(w, npc) ==
  LET t == npc.targetPos
  IN IF npc.pickaxe
     THEN { gatherEnd(
              [drawn(w, << lucky >>) EXCEPT
                 !.resources.STONE = @ + GATHER_YIELD,
                 !.map[t.y][t.x] = IF mined THEN "FLOOR" ELSE @],
              npc, "gather_stone", lucky) :
            mined \in BOOLEAN, lucky \in rareDraw(w) }
     ELSE { Out(w, [npc EXCEPT !.state = "IDLE"], "gather_nopick") }

npcGathering(w, npc) ==
  LET n1 == [npc EXCEPT !.actionTimer = @ - 1]
      t == npc.targetPos
      tile == w.map[t.y][t.x]
  IN IF n1.actionTimer <= 0
     THEN IF t = NullPos THEN { gatherEnd(w, n1, "gather_none", FALSE) }
          ELSE IF tile = "FOREST" THEN gatherForest(w, n1)
          ELSE IF tile = "MOUNTAIN" THEN gatherMountain(w, n1)
          ELSE { gatherEnd(drawn(w, << lucky >>), n1, "gather_nothing", lucky) :
                   lucky \in rareDraw(w) }
     ELSE { Out(w, n1, "gather_wait") }

\* the callback of newState.npcs.map
updateNpc(w, npc) ==
  IF npc.state = "IDLE" THEN npcIdle(w, npc)
  ELSE IF npc.state = "MOVING" THEN npcMoving(w, npc)
  ELSE IF npc.state = "CRAFTING" THEN npcCrafting(w, npc)
  ELSE IF npc.state = "BUILDING" THEN npcBuilding(w, npc)
  ELSE IF npc.state = "FARMING" THEN npcFarming(w, npc)
  ELSE IF npc.state = "GATHERING" THEN npcGathering(w, npc)
  ELSE { Out(w, npc, "none") }

(***************************************************************************)
(* updateGameState: the counters, weather and Fate first, then every agent *)
(* in list order on the shared newState, then the random world event.      *)
(***************************************************************************)
nextWeather(wt) ==
  IF wt = "SUNNY" THEN "RAIN" ELSE IF wt = "RAIN" THEN "NIGHT" ELSE "SUNNY"

\* Array.prototype.slice(0, n)
slice(seq, n) == SubSeq(seq, 1, Min(n, Len(seq)))

RECURSIVE mapNpcs_LastFirst(_, _, _, _, _)
\* a faulty variant of mapNpcs that evaluates the agents from the end of the
\* list to its start
mapNpcs_LastFirst(w, old, i, done, evs) ==
  IF i > Len(old)
  THEN { [w |-> w, npcs |-> done, ev |-> evs] }
  ELSE UNION { mapNpcs_LastFirst(o.w, old, i + 1, << o.npc >> \o done, << o.ev >> \o evs) :
                 o \in updateNpc(w, old[Len(old) + 1 - i]) }

RECURSIVE mapNpcs(_, _, _, _, _)
\* the agents old[i..] evaluated in order; done and evs collect the results
mapNpcs(w, old, i, done, evs) ==
  IF i > Len(old)
  THEN { [w |-> w, npcs |-> done, ev |-> evs] }
  ELSE UNION { mapNpcs(o.w, old, i + 1, Append(done, o.npc), Append(evs, o.ev)) :
                 o \in updateNpc(w, old[i]) }

\* Math.random() < 0.005, then eventType < 0.5
randomEvent(w) ==
  { [w |-> w, event |-> "none"] } \cup
  IF TRUE \in rareDraw(w)
  THEN { [w |-> [drawn(w, << TRUE >>) EXCEPT !.logs = << LogBird >> \o @],
          event |-> "bird"],
         [w |-> [drawn(w, << TRUE >>) EXCEPT
                   !.resources.FOOD = Max(0, @ - FOOD_LOSS),
                   !.logs = << LogRats >> \o @], event |-> "rats"] }
  ELSE { }

\* a faulty variant of nextTick that leaves the counter where it was
nextTick_Same(t) == t

\* newState.tickCount++
nextTick(t) == t + 1

\* a faulty variant of passiveFate that grants Fate one tick late
passiveFate_Late(res, tick) ==
  IF tick % FATE_PERIOD = 1 THEN [res EXCEPT !.FATE = @ + 1] ELSE res

\* Passive Fate Gain
passiveFate(res, tick) ==
  IF tick % FATE_PERIOD = 0 THEN [res EXCEPT !.FATE = @ + 1] ELSE res

\* a faulty variant of weatherTurns that changes the weather one tick late
weatherTurns_Late(tick) == tick % WEATHER_PERIOD = 1

\* whether the weather changes in the tick
weatherTurns(tick) == tick % WEATHER_PERIOD = 0

\* The state object passed to updateGameState as the call leaves it.  The
\* copy { ...state } is shallow: tickCount and weather are written on the copy
\* and npcs is replaced by the array that map returns, but resources, map and
\* buildings are the objects of state itself, logs is state's array unless the
\* weather branch replaced it first, and each agent copy shares equipment.
updateGameStateArg(state, new) ==
  [state EXCEPT
     !.resources = new.resources,
     !.map = new.map,
     !.buildings = new.buildings,
     !.logs = IF weatherTurns(new.tickCount) THEN @ ELSE new.logs,
     !.npcs = [i \in DOMAIN @ |-> [@[i] EXCEPT !.pickaxe = new.npcs[i].pickaxe]]]

\* the fields in which the object differs after the call
touchedFields(before, after) == { f \in DOMAIN before : before[f] # after[f] }

updateGameState(state, rareSoFar) ==
  LET tick == nextTick(state.tickCount)
      turn == weatherTurns(tick)
      weather1 == IF turn THEN nextWeather(state.weather) ELSE state.weather
      logs1 == IF turn THEN slice(<< LogWeather >> \o state.logs, LOG_CAP)
               ELSE state.logs
      res1 == passiveFate(state.resources, tick)
      w0 == [map |-> state.map, buildings |-> state.buildings,
             resources |-> res1, logs |-> logs1, rare |-> rareSoFar]
  IN UNION { { [state |-> [state EXCEPT !.tickCount = tick,
                                        !.weather = weather1,
                                        !.npcs = r.npcs,
                                        !.map = e.w.map,
                                        !.buildings = e.w.buildings,
                                        !.resources = e.w.resources,
                                        !.logs = e.w.logs],
                 ev |-> r.ev, event |-> e.event, rare |-> e.w.rare] : e \in randomEvent(r.w) } :
             r \in mapNpcs(w0, state.npcs, 1, << >>, << >>) }

(***************************************************************************)
(* The external requests of the application shell: handleEntitySelect and  *)
(* handleAction (BLESS, CYCLE_ROLE).                                        *)
(***************************************************************************)
handleEntitySelect(state, id) == [state EXCEPT !.selectedEntityId = id]

npcIndexOf(state) ==
  findFirst(state.npcs, {n \in Range(state.npcs) : n.id = state.selectedEntityId})

\* a faulty variant of blessedHealth that heals beyond the maximum
blessedHealth_Uncapped(npc) == npc.health + BLESS_HEAL

\* Math.min(maxHealth, health + 50)
blessedHealth(npc) == Min(npc.maxHealth, npc.health + BLESS_HEAL)

\* a faulty variant of bless that takes the Fate before it looks for the agent
bless_DeductsEarly(state) ==
  LET i == npcIndexOf(state)
      paid == [state EXCEPT !.resources.FATE = @ - BLESS_COST]
  IN IF state.selectedEntityId # NullId /\ state.resources.FATE >= BLESS_COST
     THEN IF i # 0
          THEN [ok |-> TRUE,
                state |-> [paid EXCEPT
                             !.npcs[i].health = blessedHealth(state.npcs[i]),
                             !.logs = << LogBless >> \o @]]
          ELSE [ok |-> FALSE, state |-> paid]
     ELSE [ok |-> FALSE, state |-> state]

bless(state) ==
  LET i == npcIndexOf(state)
  IN IF state.selectedEntityId # NullId /\ state.resources.FATE >= BLESS_COST /\ i # 0
     THEN [ok |-> TRUE,
           state |-> [state EXCEPT
                        !.resources.FATE = @ - BLESS_COST,
                        !.npcs[i].health = blessedHealth(state.npcs[i]),
                        !.logs = << LogBless >> \o @]]
     ELSE [ok |-> FALSE, state |-> state]

CycleRoles == << "WORKER", "BUILDER", "FARMER", "GUARD" >>

\* a faulty variant of nextRole that leaves a role outside the cycle as it is
nextRole_KeepsUnknown(role) ==
  LET found == {k \in DOMAIN CycleRoles : CycleRoles[k] = role}
  IN IF found = {} THEN role
     ELSE CycleRoles[((CHOOSE k \in found : TRUE) % Len(CycleRoles)) + 1]

\* a faulty variant of nextRole that goes round the cycle backwards
nextRole_Backwards(role) ==
  LET found == {k \in DOMAIN CycleRoles : CycleRoles[k] = role}
      index == IF found = {} THEN 1 ELSE (CHOOSE k \in found : TRUE) - 1
  IN CycleRoles[((index - 1 + Len(CycleRoles)) % Len(CycleRoles)) + 1]

\* roles[(roles.indexOf(role) + 1) % roles.length]; indexOf is -1 when absent
nextRole(role) ==
  LET found == {k \in DOMAIN CycleRoles : CycleRoles[k] = role}
      index == IF found = {} THEN -1 ELSE (CHOOSE k \in found : TRUE) - 1
  IN CycleRoles[((index + 1) % Len(CycleRoles)) + 1]

\* a faulty variant of cycleRole that changes the role and leaves the agent
\* in the state and with the target it had
cycleRole_KeepsState(state) ==
  LET i == npcIndexOf(state)
  IN IF state.selectedEntityId # NullId /\ i # 0
     THEN [ok |-> TRUE,
           state |-> [state EXCEPT
                        !.npcs[i].role = nextRole(@),
                        !.logs = << LogRole >> \o @]]
     ELSE [ok |-> FALSE, state |-> state]

\* a faulty variant of cycleRole that clears the target and leaves the agent
\* in the state it had
cycleRole_DropsTargetOnly(state) ==
  LET i == npcIndexOf(state)
  IN IF state.selectedEntityId # NullId /\ i # 0
     THEN [ok |-> TRUE,
           state |-> [state EXCEPT
                        !.npcs[i].role = nextRole(@),
                        !.npcs[i].targetPos = NullPos,
                        !.logs = << LogRole >> \o @]]
     ELSE [ok |-> FALSE, state |-> state]

cycleRole(state) ==
  LET i == npcIndexOf(state)
  IN IF state.selectedEntityId # NullId /\ i # 0
     THEN [ok |-> TRUE,
           state |-> [state EXCEPT
                        !.npcs[i].role = nextRole(@),
                        !.npcs[i].state = "IDLE",
                        !.npcs[i].targetPos = NullPos,
                        !.logs = << LogRole >> \o @]]
     ELSE [ok |-> FALSE, state |-> state]

\* The state object passed to handleAction as the call leaves it: the copy
\* { ...prev } is shallow and every write goes to resources, to an agent of
\* npcs or to logs, which are the objects of prev itself.
handleActionArg(state, new) ==
  [state EXCEPT !.resources = new.resources,
                !.npcs = new.npcs,
                !.logs = new.logs]

handleAction(state, action) ==
  IF action = "BLESS" THEN bless(state)
  ELSE IF action = "CYCLE_ROLE" THEN cycleRole(state)
  ELSE [ok |-> FALSE, state |-> state]

(***************************************************************************)
(* Initial states.  A run starts from genesis, or from a saved colony that *)
(* loadGame restores.  Each saved colony is a state play reaches from      *)
(* genesis with the same seed, two ticks before the second weather change: *)
(*   - the original Workers gathered Wood and Stone and, where the profile *)
(*     gives an agent a pickaxe, it crafted one (log "crafted");           *)
(*   - the weather changed once, at tick 500 (log "weather");              *)
(*   - where the profile has a site it was placed (log                     *)
(*     "construction_started") and Builders raised it to the profile's     *)
(*     progress (log "complete" at 100);                                   *)
(*   - every agent was cycled from its genesis role to its present role    *)
(*     (log "role"); an agent that is Idle was cycled last where it        *)
(*     stands, a full round of four when it still has its genesis role,    *)
(*     which leaves it Idle with no target;                                *)
(*   - an agent that is busy arrived at its target with the role it has    *)
(*     and its timer has run down to the profile's value;                  *)
(*   - rats took the food the profile lacks, two at a time (log "rats");   *)
(*   - no bless was requested, so Fate is the number of hundreds of ticks. *)
(***************************************************************************)
Seeds == {2}

\* the spawn offsets the model explores, one list per genesis, entry i for
\* agent i
SpawnChoices == { << << 2, 2 >>, << -2, 1 >> >> }

SavedTick == 2 * WEATHER_PERIOD - 2

SitePos == Pos(Center.x + 1, Center.y + 1)

Agent(role, pickaxe, state, target, timer, at) ==
  [role |-> role, pickaxe |-> pickaxe, state |-> state, target |-> target,
   timer |-> timer, at |-> at]

Profile(agents, wood, stone, food, site, progress) ==
  [agents |-> agents, wood |-> wood, stone |-> stone, food |-> food,
   site |-> site, progress |-> progress]

\* where an agent stands, as an offset from the centre of the map
West == << -1, 0 >>
South == << 0, 1 >>
NorthEast == << MAP_WIDTH - 1 - Center.x, 0 - Center.y >>
\* the Mountain tile nearest to the centre of the map
OnMountain ==
  LET seed == CHOOSE sd \in Seeds : TRUE
      m == findNearestTile(generateMap(MAP_WIDTH, MAP_HEIGHT, seed), Center, "MOUNTAIN")
  IN << m.x - Center.x, m.y - Center.y >>

SavedProfiles ==
  { \* two Workers that arrived at the Base in the same tick, Wood for one pickaxe
    Profile(<< Agent("WORKER", FALSE, "CRAFTING", "base", 2, West),
               Agent("WORKER", FALSE, "CRAFTING", "base", 2, South) >>,
            10, 0, START_FOOD, "", 0),
    \* a Builder, Idle in a corner of the map, and a Worker at the Base, Wood
    \* for a House as well, the food eaten by rats
    Profile(<< Agent("BUILDER", FALSE, "IDLE", "none", 0, NorthEast),
               Agent("WORKER", FALSE, "CRAFTING", "base", 2, South) >>,
            40, 0, 0, "", 0),
    \* two Builders at work on a House, one tick apart
    Profile(<< Agent("BUILDER", FALSE, "BUILDING", "site", 1, South),
               Agent("BUILDER", TRUE, "BUILDING", "site", 2, South) >>,
            50, 50, START_FOOD, "HOUSE", 90),
    \* two Builders at work on a Farm, in step
    Profile(<< Agent("BUILDER", FALSE, "BUILDING", "site", 2, South),
               Agent("BUILDER", TRUE, "BUILDING", "site", 2, South) >>,
            20, 50, START_FOOD, "FARM", 80),
    \* two Builders, Idle, a fresh House waiting
    Profile(<< Agent("BUILDER", FALSE, "IDLE", "none", 0, West),
               Agent("BUILDER", FALSE, "IDLE", "none", 0, South) >>,
            0, 0, START_FOOD, "HOUSE", 0) }

\* colonies saved after the last tree was felled, the Wood spent on a House
\* that stands complete
ClearedProfiles ==
  { \* a Builder with no site to work on wandered onto a Mountain tile and is
    \* Gathering there; a Worker is Idle beside the Base
    Profile(<< Agent("BUILDER", FALSE, "GATHERING", "here", 2, OnMountain),
               Agent("WORKER", FALSE, "IDLE", "none", 0, West) >>,
            0, 0, START_FOOD, "HOUSE", MAX_PROGRESS) }

\* entry i of a profile list, the last entry standing for further agents
pick(list, i) == list[Min(i, Len(list))]

roleIndex(role) == CHOOSE k \in DOMAIN CycleRoles : CycleRoles[k] = role

\* the cycleRole requests that took an agent from role a to role b
cyclesBetween(a, b, idle) ==
  LET d == (roleIndex(b) - roleIndex(a) + Len(CycleRoles)) % Len(CycleRoles)
  IN IF d = 0 /\ idle THEN Len(CycleRoles) ELSE d

RECURSIVE repeat(_, _)
repeat(e, n) == IF n <= 0 THEN << >> ELSE << e >> \o repeat(e, n - 1)

RECURSIVE sumTo(_, _)
sumTo(f, n) == IF n = 0 THEN 0 ELSE f[n] + sumTo(f, n - 1)

genesisRole(i) == IF i = 1 THEN "GUARD" ELSE "WORKER"

savedLogs(p) ==
  LET cycles == [i \in 1..NumAgents |->
                   cyclesBetween(genesisRole(i), pick(p.agents, i).role,
                                 pick(p.agents, i).state = "IDLE")]
      crafted == [i \in 1..NumAgents |-> IF pick(p.agents, i).pickaxe THEN 1 ELSE 0]
  IN repeat(LogRats, (START_FOOD - p.food) \div FOOD_LOSS)
     \o repeat(LogRole, sumTo(cycles, NumAgents))
     \o (IF p.site # "" /\ p.progress >= MAX_PROGRESS THEN << LogComplete >> ELSE << >>)
     \o (IF p.site # "" THEN << LogBuild >> ELSE << >>)
     \o << LogWeather >>
     \o repeat(LogCrafted, sumTo(crafted, NumAgents))
     \o << LogInit >>

savedNpc(n, a) ==
  [n EXCEPT !.pos = Pos(Center.x + a.at[1], Center.y + a.at[2]),
            !.role = a.role,
            !.pickaxe = a.pickaxe,
            !.state = a.state,
            !.actionTimer = a.timer,
            !.targetPos = IF a.target = "base" THEN Center
                          ELSE IF a.target = "site" THEN SitePos
                          ELSE IF a.target = "here"
                          THEN Pos(Center.x + a.at[1], Center.y + a.at[2])
                          ELSE NullPos]

savedColony(seed, p) ==
  LET g == createInitialState(seed, [i \in 1..NumAgents |-> << 0, 0 >>])
      site == [newBuilding(SitePos.x, SitePos.y, p.site)
                 EXCEPT !.constructionProgress = p.progress,
                        !.completed = p.progress >= MAX_PROGRESS]
  IN [g EXCEPT
        !.npcs = [i \in 1..NumAgents |-> savedNpc(g.npcs[i], pick(p.agents, i))],
        !.buildings = IF p.site = "" THEN @ ELSE Append(@, site),
        !.resources = [WOOD |-> p.wood, STONE |-> p.stone,
                       FOOD |-> p.food, FATE |-> SavedTick \div FATE_PERIOD],
        !.logs = savedLogs(p),
        !.tickCount = SavedTick,
        !.weather = nextWeather("SUNNY")]

GenesisStates ==
  { createInitialState(seed, [i \in 1..NumAgents |-> pick(offs, i)]) :
      seed \in Seeds, offs \in SpawnChoices }

\* the map after every Forest tile was felled (Gathering turns it to Grass)
felledMap(m) ==
  [y \in DOMAIN m |-> [x \in DOMAIN m[y] |->
     IF m[y][x] = "FOREST" THEN "GRASS" ELSE m[y][x]]]

clearedColony(seed, p) == [savedColony(seed, p) EXCEPT !.map = felledMap(@)]

SavedStates ==
  { savedColony(seed, p) : seed \in Seeds, p \in SavedProfiles }
  \cup { clearedColony(seed, p) : seed \in Seeds, p \in ClearedProfiles }

\* setGameState
SetState(st) ==
  /\ map' = st.map
  /\ npcs' = st.npcs
  /\ buildings' = st.buildings
  /\ resources' = st.resources
  /\ logs' = st.logs
  /\ tickCount' = st.tickCount
  /\ weather' = st.weather
  /\ selectedEntityId' = st.selectedEntityId

Start(st) ==
  /\ map = st.map
  /\ npcs = st.npcs
  /\ buildings = st.buildings
  /\ resources = st.resources
  /\ logs = st.logs
  /\ tickCount = st.tickCount
  /\ weather = st.weather
  /\ selectedEntityId = st.selectedEntityId
  /\ requests = 0
  /\ rare = 0
  /\ lastOp = NoOp
  /\ touched = {}

InitGenesis == \E st \in GenesisStates : Start(st)

Init == \E st \in GenesisStates \cup SavedStates : Start(st)

(***************************************************************************)
(* Actions.                                                                *)
(***************************************************************************)
\* the tick at which the run started
startTick == IF tickCount >= SavedTick THEN SavedTick ELSE 0

\* the game loop's interval callback: setGameState(prev => updateGameState(prev))
Tick ==
  /\ \E r \in updateGameState(GameState, rare) :
       /\ SetState(r.state)
       /\ rare' = r.rare
       /\ lastOp' = Op("step", 0, 0, "", NullId, TRUE, "", r.ev, r.event)
       /\ touched' = touchedFields(GameState, updateGameStateArg(GameState, r.state))
  /\ UNCHANGED requests

\* the ticks of a run that Spec explores
Step ==
  /\ tickCount < startTick + TickWindow
  /\ Tick

\* handlePlaceBuilding with buildMode = type: the state is replaced only when
\* placeBuilding returns one
PlaceBuilding(x, y, type) ==
  LET r == placeBuilding(GameState, x, y, type)
  IN /\ SetState(IF r.ok THEN r.state ELSE r.arg)
     /\ requests' = requests + 1
     /\ UNCHANGED rare
     /\ lastOp' = Op("placeBuilding", x, y, type, NullId, r.ok,
                     placeBuildingRejection(GameState, x, y, type), << >>, "")
     /\ touched' = touchedFields(GameState, r.arg)

\* the entity is selected, then the sidebar button calls handleAction
Request(action, id) ==
  LET prev == handleEntitySelect(GameState, id)
      r == handleAction(prev, action)
  IN /\ SetState(r.state)
     /\ requests' = requests + 1
     /\ UNCHANGED rare
     /\ lastOp' = Op(action, 0, 0, "", id, r.ok, "", << >>, "")
     /\ touched' = touchedFields(prev, handleActionArg(prev, r.state))

Bless(id) == Request("BLESS", id)

CycleRole(id) == Request("CYCLE_ROLE", id)

\* the inputs of the external requests that Spec explores
AgentIds == { npcs[i].id : i \in DOMAIN npcs }
BlessTargets == { npcs[1].id, BaseId }
BuildSites == { SitePos }
BuildKinds == { "BASE", "HOUSE" }

Next ==
  \/ Step
  \/ /\ requests < MaxRequests
     /\ \E p \in BuildSites, type \in BuildKinds : PlaceBuilding(p.x, p.y, type)
  \/ /\ requests < MaxRequests
     /\ \E id \in BlessTargets : Bless(id)
  \/ /\ requests < MaxRequests
     /\ \E id \in AgentIds : CycleRole(id)

Spec == Init /\ [][Next]_vars

(***************************************************************************)
(* placeBuilding on its own: one request, with any coordinates on the map  *)
(* or just beyond its border and any structure kind, as the first request  *)
(* of a run from any initial state.                                        *)
(***************************************************************************)
PlaceXs == -1..MAP_WIDTH
PlaceYs == -1..MAP_HEIGHT

NextPlace ==
  /\ requests = 0
  /\ \E x \in PlaceXs, y \in PlaceYs, type \in StructureType :
       PlaceBuilding(x, y, type)

SpecPlace == Init /\ [][NextPlace]_vars

(***************************************************************************)
(* A new colony with the game paused (isPaused stops the interval of the   *)
(* game loop): only cycleRole requests change the state.  The guard stops  *)
(* the run once the log has passed LOG_CAP entries.                        *)
(***************************************************************************)
NextLog ==
  /\ Len(logs) <= LOG_CAP
  /\ \E id \in AgentIds : CycleRole(id)

SpecLog == InitGenesis /\ [][NextLog]_vars

(***************************************************************************)
(* One Builder and a fresh building: a colony saved in the tick before the *)
(* Builder arrives at a House that was just placed, the other agents       *)
(* Workers.  The run lasts until the House is complete.                    *)
(***************************************************************************)
LoneBuilderProfile ==
  Profile(<< Agent("BUILDER", FALSE, "MOVING", "site", 0, South),
             Agent("WORKER", FALSE, "IDLE", "none", 0, West) >>,
          0, 0, START_FOOD, "HOUSE", 0)

InitBuild == \E seed \in Seeds : Start(savedColony(seed, LoneBuilderProfile))

BuildWindow == (MAX_PROGRESS \div BUILD_INCREMENT) * BUILD_TICKS + TickWindow

NextBuild ==
  /\ tickCount < SavedTick + BuildWindow
  /\ Tick

SpecBuild == InitBuild /\ [][NextBuild]_vars

(***************************************************************************)
(* The clock of the colony: updateGameState applied to the genesis colony, *)
(* to saved colonies with wounded agents, with the requests of the shell   *)
(* in between, and to a colony with no agents, which is followed from tick *)
(* 0 for three weather periods.                                            *)
(***************************************************************************)
emptyColony(seed) ==
  [createInitialState(seed, [i \in 1..NumAgents |-> << 0, 0 >>])
     EXCEPT !.npcs = << >>]

\* Nothing in the game lowers health, so agents below their maximum come from
\* a save: the health of the agents of a wounded colony, in order
WoundedHealth == << START_HEALTH - BLESS_HEAL - 20, START_HEALTH - BLESS_HEAL + 10 >>

woundedColony(seed) ==
  [savedColony(seed, LoneBuilderProfile) EXCEPT
     !.npcs = [i \in DOMAIN @ |-> [@[i] EXCEPT !.health = pick(WoundedHealth, i)]]]

\* the wounded colony after a bless that the first agent did not keep
blessedColony(seed) ==
  [woundedColony(seed) EXCEPT !.resources.FATE = @ - BLESS_COST,
                              !.logs = << LogBless >> \o @]

InitQuiet ==
  \/ InitGenesis
  \/ \E seed \in Seeds : Start(emptyColony(seed))
  \/ \E seed \in Seeds : Start(woundedColony(seed))
  \/ \E seed \in Seeds : Start(blessedColony(seed))

QuietWindow == 3 * WEATHER_PERIOD + TickWindow

QuietStep ==
  /\ IF npcs = << >> THEN tickCount < QuietWindow
                      ELSE tickCount < startTick + TickWindow
  /\ Tick

QuietTargets == AgentIds \cup { BaseId }

\* the colony with no agents is followed through its ticks only
QuietRequests == IF npcs = << >> THEN 0 ELSE MaxRequests

NextQuiet ==
  \/ QuietStep
  \/ /\ requests < QuietRequests
     /\ \E p \in BuildSites, type \in BuildKinds : PlaceBuilding(p.x, p.y, type)
  \/ /\ requests < QuietRequests
     /\ \E id \in QuietTargets : Bless(id)
  \/ /\ requests < QuietRequests
     /\ \E id \in QuietTargets : CycleRole(id)

SpecQuiet == InitQuiet /\ [][NextQuiet]_vars

(***************************************************************************)
(* The role button, with the game paused: the player selects one entity    *)
(* and requests CYCLE_ROLE for it again and again, twice round the cycle.  *)
(* Besides the colonies of Init the run may start from a save in which the *)
(* first agent is an Explorer, a role of NPCRole that no code path assigns *)
(* but that loadGame restores as it finds it.                              *)
(***************************************************************************)
ExplorerProfiles ==
  { \* the Explorer on its way to a site, a Worker Idle
    LoneBuilderProfile,
    \* the Explorer Idle, a Builder at work
    Profile(<< Agent("BUILDER", FALSE, "IDLE", "none", 0, West),
               Agent("BUILDER", FALSE, "BUILDING", "site", 2, South) >>,
            0, 0, START_FOOD, "HOUSE", 0) }

explorerColony(seed, p) ==
  [savedColony(seed, p) EXCEPT !.npcs[1].role = "EXPLORER"]

InitRole ==
  \/ Init
  \/ \E seed \in Seeds, p \in ExplorerProfiles : Start(explorerColony(seed, p))

RoleRequests == 2 * Len(CycleRoles) + MaxRequests

NextRole ==
  /\ requests < RoleRequests
  /\ \E id \in QuietTargets :
       /\ selectedEntityId \in { NullId, id }
       /\ CycleRole(id)

SpecRole == InitRole /\ [][NextRole]_vars

(***************************************************************************)
(* The order of the writes within one tick: colonies saved in the tick     *)
(* before several agents resolve their action together.                    *)
(***************************************************************************)
\* the Forest tile nearest to the centre of the map
OnForest ==
  LET seed == CHOOSE sd \in Seeds : TRUE
      m == findNearestTile(generateMap(MAP_WIDTH, MAP_HEIGHT, seed), Center, "FOREST")
  IN << m.x - Center.x, m.y - Center.y >>

OrderProfiles ==
  \* Workers about to finish their pickaxes, with Wood for none, one or both
  { Profile(<< Agent("WORKER", FALSE, "CRAFTING", "base", 1, West),
               Agent("WORKER", FALSE, "CRAFTING", "base", t, South) >>,
            wood, 0, START_FOOD, "", 0) : wood \in { 0, 10, 15, 20 }, t \in 1..2 }
  \cup
  \* Workers about to fell the same tree
  { Profile(<< Agent("WORKER", FALSE, "GATHERING", "here", 1, OnForest),
               Agent("WORKER", FALSE, "GATHERING", "here", t, OnForest) >>,
            0, 0, START_FOOD, "", 0) : t \in 1..2 }
  \cup
  \* Farmers about to harvest, the food eaten by rats
  { Profile(<< Agent("FARMER", FALSE, "FARMING", "site", 1, South),
               Agent("FARMER", FALSE, "FARMING", "site", t, South) >>,
            0, 0, food, "FARM", MAX_PROGRESS) : food \in { 0, 1, START_FOOD }, t \in 1..2 }

InitOrder == \E seed \in Seeds, p \in OrderProfiles : Start(savedColony(seed, p))

NextOrder ==
  /\ tickCount < SavedTick + TickWindow
  /\ Tick

SpecOrder == InitOrder /\ [][NextOrder]_vars

(***************************************************************************)
(* The way to the Base: colonies saved while the Workers, ten Wood in      *)
(* store and no pickaxe yet, walk to the Base from anywhere on the map.    *)
(***************************************************************************)
\* every tile of the map, as an offset from the centre
MapOffsets ==
  { << x - Center.x, y - Center.y >> : x \in 0..(MAP_WIDTH - 1), y \in 0..(MAP_HEIGHT - 1) }

MoveProfiles ==
  { Profile(<< Agent("WORKER", FALSE, "MOVING", "base", 0, at) >>,
            PICKAXE_WOOD, 0, START_FOOD, "", 0) : at \in MapOffsets }

InitMove == \E seed \in Seeds, p \in MoveProfiles : Start(savedColony(seed, p))

\* the ticks of the longest way on the map, and those of a run after it
MoveWindow == (MAP_WIDTH - 1) + (MAP_HEIGHT - 1) + TickWindow

NextMove ==
  /\ tickCount < SavedTick + MoveWindow
  /\ Tick

SpecMove == InitMove /\ [][NextMove]_vars

(***************************************************************************)
(* Arrivals: colonies saved in the tick before an agent of any role, with  *)
(* or without a pickaxe, resolves its arrival at the Base, at the site, on *)
(* a Forest, a Mountain or a Grass tile; the other agents are on their way *)
(* from the corner of the map.                                             *)
(***************************************************************************)
ArriveTargets ==
  { [target |-> "base", at |-> West],
    [target |-> "site", at |-> South],
    [target |-> "here", at |-> OnForest],
    [target |-> "here", at |-> OnMountain],
    [target |-> "here", at |-> West] }

\* no site; a House begun; a Farm half built; a Farm and a House complete
ArriveSites ==
  { [kind |-> "", progress |-> 0],
    [kind |-> "HOUSE", progress |-> 0],
    [kind |-> "FARM", progress |-> MAX_PROGRESS \div 2],
    [kind |-> "FARM", progress |-> MAX_PROGRESS],
    [kind |-> "HOUSE", progress |-> MAX_PROGRESS] }

ArriveProfiles ==
  { Profile(<< Agent(role, pk, "MOVING", tg.target, 0, tg.at),
               Agent("WORKER", FALSE, "MOVING", "base", 0, NorthEast) >>,
            wood, 0, START_FOOD, site.kind, site.progress) :
      role \in Range(CycleRoles), pk \in BOOLEAN, tg \in ArriveTargets,
      wood \in { 0, PICKAXE_WOOD }, site \in ArriveSites }

\* the colony of a profile with its site placed on the Forest tile nearest to
\* the centre (placeBuilding refuses only Water and Mountain)
woodedColony(seed, p) ==
  LET c == savedColony(seed, p)
  IN [c EXCEPT !.buildings[Len(c.buildings)].pos =
                 Pos(Center.x + OnForest[1], Center.y + OnForest[2])]

InitArrive ==
  \E seed \in Seeds, p \in ArriveProfiles :
    \/ Start(savedColony(seed, p))
    \/ p.site # "" /\ Start(woodedColony(seed, p))

NextArrive ==
  /\ tickCount < SavedTick + TickWindow
  /\ Tick

SpecArrive == InitArrive /\ [][NextArrive]_vars

(***************************************************************************)
(* The role button during play: colonies saved in the tick before an agent *)
(* of any role arrives at the Base, at a House begun, at a Farm complete   *)
(* or on a Forest tile, with cycleRole requests for any agent before,      *)
(* between and after the ticks (React runs the updater of a request and    *)
(* the updater of the game loop one after the other, never interleaved).   *)
(***************************************************************************)
DutyProfiles ==
  { Profile(<< Agent(role, FALSE, "MOVING", tg.target, 0, tg.at),
               Agent("WORKER", FALSE, "MOVING", "base", 0, NorthEast) >>,
            PICKAXE_WOOD, 0, START_FOOD, site.kind, site.progress) :
      role \in Range(CycleRoles),
      tg \in { t \in ArriveTargets : t.at # OnMountain },
      site \in { a \in ArriveSites :
                  a.kind # "" /\ (a.progress = 0 \/ a.kind = "FARM") } }

InitDuty == \E seed \in Seeds, p \in DutyProfiles : Start(savedColony(seed, p))

NextDuty ==
  \/ NextArrive
  \/ /\ requests < MaxRequests
     /\ \E id \in AgentIds : CycleRole(id)

SpecDuty == InitDuty /\ [][NextDuty]_vars

(***************************************************************************)
(* At the bench: colonies saved as the Workers reach the Base with Wood    *)
(* for one pickaxe, for one and a half, or for two, side by side or one a  *)
(* tick behind the other; the run lasts until their pickaxes are made.     *)
(***************************************************************************)
WestWest == << -2, 0 >>

CraftProfiles ==
  { Profile(<< Agent("WORKER", FALSE, "MOVING", "base", 0, West),
               Agent("WORKER", FALSE, "MOVING", "base", 0, at) >>,
            wood, 0, START_FOOD, "", 0) :
      at \in { South, WestWest },
      wood \in { PICKAXE_WOOD, PICKAXE_WOOD + GATHER_YIELD, 2 * PICKAXE_WOOD } }

InitCraft == \E seed \in Seeds, p \in CraftProfiles : Start(savedColony(seed, p))

\* the tick of the arrival, the ticks at the bench and those after it
CraftWindow == 1 + CRAFT_TICKS + TickWindow

NextCraft ==
  /\ tickCount < SavedTick + CraftWindow
  /\ Tick

SpecCraft == InitCraft /\ [][NextCraft]_vars

(***************************************************************************)
(* The harvest: colonies saved in the tick before an agent resolves its    *)
(* Gathering on a Forest, a Mountain or a Grass tile (a tree another agent *)
(* has felled since it arrived), with or without a pickaxe, a Worker       *)
(* beside it at work on the nearest tree; the requests of the shell come    *)
(* before the game loop is resumed.                                        *)
(***************************************************************************)
GatherProfiles ==
  { Profile(<< Agent(role, pk, "GATHERING", "here", 1, at),
               Agent("WORKER", FALSE, "GATHERING", "here", 1, OnForest) >>,
            5 * PICKAXE_WOOD, 0, START_FOOD, "", 0) :
      role \in { "WORKER", "BUILDER" }, pk \in BOOLEAN,
      at \in { OnForest, OnMountain, West } }

InitGather == \E seed \in Seeds, p \in GatherProfiles : Start(savedColony(seed, p))

\* the requests come before the game loop is resumed
GatherRequests == IF tickCount = SavedTick THEN MaxRequests ELSE 0

NextGather ==
  \/ Step
  \/ /\ requests < GatherRequests
     /\ \E q \in BuildSites, type \in BuildKinds : PlaceBuilding(q.x, q.y, type)
  \/ /\ requests < GatherRequests
     /\ \E id \in BlessTargets : Bless(id)
  \/ /\ requests < GatherRequests
     /\ \E id \in AgentIds : CycleRole(id)

SpecGather == InitGather /\ [][NextGather]_vars

(***************************************************************************)
(* The farm: a colony saved in the tick before its Farmers arrive at the   *)
(* Wheat Farm that stands complete.  The run lasts until the second        *)
(* harvest of a Farmer that stayed; the player may change a role on the    *)
(* way.                                                                    *)
(***************************************************************************)
FarmProfile ==
  Profile(<< Agent("FARMER", FALSE, "MOVING", "site", 0, South) >>,
          0, 0, START_FOOD, "FARM", MAX_PROGRESS)

InitFarm == \E seed \in Seeds : Start(savedColony(seed, FarmProfile))

\* the tick of the arrival, the wait for the first and for the second harvest
FarmWindow == 1 + FARM_TICKS + FARM_RESET_TICKS + TickWindow

\* the run is followed while the agents are the Farmers they were
NextFarm ==
  \/ /\ tickCount < SavedTick + FarmWindow
     /\ \A i \in DOMAIN npcs : npcs[i].role = "FARMER"
     /\ Tick
  \/ /\ requests < MaxRequests
     /\ \E id \in AgentIds : CycleRole(id)

SpecFarm == InitFarm /\ [][NextFarm]_vars

(***************************************************************************)
(* The building site under a running game loop: colonies saved with a      *)
(* building half raised or nearly done, two Builders at work on it or a    *)
(* Builder Idle in the corner of the map.  The player may make requests    *)
(* before the game loop is resumed; from then on the interval timer keeps  *)
(* firing (weak fairness of the tick) for as long as the run is followed:  *)
(* until every building is complete and no Builder is at work, or until    *)
(* the time to walk across the map and to raise the second half of a       *)
(* building has passed.                                                    *)
(***************************************************************************)
SiteProfiles ==
  { Profile(<< Agent("BUILDER", FALSE, "IDLE", "none", 0, NorthEast),
               Agent("WORKER", FALSE, "IDLE", "none", 0, West) >>,
            0, 0, START_FOOD, "FARM", MAX_PROGRESS \div 2),
    Profile(<< Agent("BUILDER", FALSE, "BUILDING", "site", 1, South),
               Agent("BUILDER", TRUE, "BUILDING", "site", 2, South) >>,
            0, 0, START_FOOD, "HOUSE", MAX_PROGRESS - BUILD_INCREMENT) }

InitSite == \E seed \in Seeds, p \in SiteProfiles : Start(savedColony(seed, p))

SiteWindow == MoveWindow + 1 + ((MAX_PROGRESS \div 2) \div BUILD_INCREMENT) * BUILD_TICKS

\* a building is not completed, or a Builder is still at work on one
sitesOpen ==
  \/ \E k \in DOMAIN buildings : ~buildings[k].completed
  \/ \E i \in DOMAIN npcs : npcs[i].role = "BUILDER" /\ npcs[i].state = "BUILDING"

SiteTick ==
  /\ requests = 0
  /\ sitesOpen
  /\ tickCount < SavedTick + SiteWindow
  /\ Tick

NextSite ==
  \/ SiteTick
  \/ /\ requests < GatherRequests
     /\ \E id \in AgentIds : CycleRole(id)

SpecSite == InitSite /\ [][NextSite]_vars /\ WF_vars(SiteTick)

(***************************************************************************)
(* Genesis on its own: from a running colony the player goes back to the   *)
(* menu and starts a new game, with a seed typed into the number field (a  *)
(* negative one included) and any spawn offsets for the five agents.       *)
(***************************************************************************)
GenesisSeeds == { 42, 2, 0, -1, -6, 99999 }

\* the offsets of agents 0..4, the odd and the even agents drawing alike
GenesisOffsets ==
  { << a, b, a, b, a >> : a \in SpawnDraws \X SpawnDraws, b \in SpawnDraws \X SpawnDraws }

StartNewGame(seed, offsets) ==
  /\ SetState(startNewGame(seed, offsets))
  /\ UNCHANGED << requests, rare >>
  /\ lastOp' = Op("startNewGame", seed, 0, "", NullId, TRUE, "", << >>, "")
  /\ touched' = {}

\* one new game in a run
NextGenesis ==
  /\ lastOp = NoOp
  /\ \E seed \in GenesisSeeds, offsets \in GenesisOffsets : StartNewGame(seed, offsets)

SpecGenesis == InitGenesis /\ [][NextGenesis]_vars

(***************************************************************************)
(* Properties.                                                             *)
(***************************************************************************)
world == << map, npcs, buildings, resources, logs, tickCount, weather >>

\* C1: in every reachable state each of Wood, Stone, Food and Fate is >= 0,
\* also when several agents resolve Crafting in one tick or a placement
\* spends the Wood an agent was about to craft with.
C1_ResourcesNonNegative ==
  /\ resources.WOOD >= 0
  /\ resources.STONE >= 0
  /\ resources.FOOD >= 0
  /\ resources.FATE >= 0

\* two agents resolved Crafting in the same tick with Wood for one pickaxe:
\* the first crafted it, the second found the Wood gone
C1_Witness ==
  /\ lastOp.op = "step"
  /\ Len(lastOp.ev) >= 2
  /\ lastOp.ev[1] = "craft_ok"
  /\ lastOp.ev[2] = "craft_fail"
  /\ resources.WOOD = 0

\* C2: for every building, completed is true if and only if
\* constructionProgress >= maxConstructionProgress.
C2_CompletedIffProgressAtMax ==
  \A i \in DOMAIN buildings :
    buildings[i].completed <=>
      buildings[i].constructionProgress >= buildings[i].maxConstructionProgress

\* a Builder's whack has just completed a building that is not the Base
C2_Witness ==
  /\ lastOp.op = "step"
  /\ "build_done" \in Range(lastOp.ev)
  /\ \E i \in DOMAIN buildings :
       /\ buildings[i].structureType # "BASE"
       /\ buildings[i].completed
       /\ buildings[i].constructionProgress = buildings[i].maxConstructionProgress

\* C3: every building has 0 <= constructionProgress <= maxConstructionProgress,
\* also when two Builders work on one building and one of them resolves after
\* the other has completed it.
C3_ProgressWithinMax ==
  \A i \in DOMAIN buildings :
    /\ 0 <= buildings[i].constructionProgress
    /\ buildings[i].constructionProgress <= buildings[i].maxConstructionProgress

\* the cost-table rows as the specification states them
CostRow(kind) ==
  IF kind = "FARM" THEN [WOOD |-> 30, STONE |-> 10]
  ELSE IF kind = "WAREHOUSE" THEN [WOOD |-> 50, STONE |-> 0]
  ELSE IF kind = "TOWER" THEN [WOOD |-> 20, STONE |-> 50]
  ELSE IF kind = "HOUSE" THEN [WOOD |-> 40, STONE |-> 0]
  ELSE [WOOD |-> 0, STONE |-> 0]

\* the check that must reject a placement request, read from the state before
\* the request: bounds, then collision, then terrain, then cost
ExpectedRejection(x, y, kind) ==
  IF x < 0 \/ x >= MAP_WIDTH \/ y < 0 \/ y >= MAP_HEIGHT THEN "bounds"
  ELSE IF \E i \in DOMAIN buildings : buildings[i].pos = Pos(x, y) THEN "collision"
  ELSE IF map[y][x] \in {"WATER", "MOUNTAIN"} THEN "terrain"
  ELSE IF \/ resources.WOOD < CostRow(kind).WOOD
          \/ resources.STONE < CostRow(kind).STONE THEN "cost"
  ELSE ""

\* C4: placeBuilding checks bounds, building collision, Water/Mountain
\* terrain and cost coverage in this order, the first failing check rejects
\* the request, and a rejected request leaves resources, building list, log,
\* terrain and agents unchanged.
C4_ValidationOrderNoMutation ==
  [][ lastOp'.op = "placeBuilding" =>
        LET why == ExpectedRejection(lastOp'.x, lastOp'.y, lastOp'.kind)
        IN /\ lastOp'.why = why
           /\ lastOp'.ok <=> why = ""
           /\ why # "" => UNCHANGED world ]_vars

\* a Tower asked for on a Mountain or Water tile with too little Stone: two
\* checks fail, and the terrain check is the one that rejects
C4_Witness ==
  /\ lastOp.op = "placeBuilding"
  /\ ~lastOp.ok
  /\ lastOp.why = "terrain"
  /\ lastOp.kind = "TOWER"
  /\ resources.STONE < CostRow("TOWER").STONE

\* C5: placeBuilding at an in-bounds tile whose terrain is Water or Mountain
\* is rejected for every structure kind and every resource balance.
C5_WaterMountainRejected ==
  ( /\ lastOp.op = "placeBuilding"
    /\ lastOp.x \in 0..(MAP_WIDTH - 1)
    /\ lastOp.y \in 0..(MAP_HEIGHT - 1)
    /\ map[lastOp.y][lastOp.x] \in {"WATER", "MOUNTAIN"} )
  => ~lastOp.ok

\* a House asked for on a free Mountain tile by a colony that can pay for it
C5_Witness ==
  /\ lastOp.op = "placeBuilding"
  /\ lastOp.kind = "HOUSE"
  /\ lastOp.x \in 0..(MAP_WIDTH - 1)
  /\ lastOp.y \in 0..(MAP_HEIGHT - 1)
  /\ map[lastOp.y][lastOp.x] = "MOUNTAIN"
  /\ ~buildingAt(buildings, lastOp.x, lastOp.y)
  /\ resources.WOOD >= CostRow("HOUSE").WOOD
  /\ ~lastOp.ok

\* C6: a successful placeBuilding of kind K deducts exactly the Wood and
\* Stone of K's cost-table row, changes no other resource, and appends
\* exactly one building of kind K at (x, y) with completed = false,
\* constructionProgress = 0 and maxConstructionProgress = 100.
C6_SuccessDeductsAndAppends ==
  [][ (lastOp'.op = "placeBuilding" /\ lastOp'.ok) =>
        LET cost == CostRow(lastOp'.kind)
            last == buildings'[Len(buildings')]
        IN /\ resources' = [resources EXCEPT !.WOOD = @ - cost.WOOD,
                                             !.STONE = @ - cost.STONE]
           /\ Len(buildings') = Len(buildings) + 1
           /\ SubSeq(buildings', 1, Len(buildings)) = buildings
           /\ last.structureType = lastOp'.kind
           /\ last.pos = Pos(lastOp'.x, lastOp'.y)
           /\ last.completed = FALSE
           /\ last.constructionProgress = 0
           /\ last.maxConstructionProgress = 100 ]_vars

\* a Farm has just been placed
C6_Witness ==
  /\ lastOp.op = "placeBuilding"
  /\ lastOp.ok
  /\ lastOp.kind = "FARM"
  /\ buildings[Len(buildings)].structureType = "FARM"
  /\ buildings[Len(buildings)].pos = Pos(lastOp.x, lastOp.y)
  /\ ~buildings[Len(buildings)].completed

\* C7: placeBuilding with structure kind Base is rejected in every state,
\* whatever the coordinates, terrain and resource balances.
C7_BaseAlwaysRejected ==
  (lastOp.op = "placeBuilding" /\ lastOp.kind = "BASE") => ~lastOp.ok

\* C8: in every reachable state the building list contains exactly one
\* building of kind Base.
C8_ExactlyOneBase ==
  Cardinality({ i \in DOMAIN buildings : buildings[i].structureType = "BASE" }) = 1

\* C9: in every reachable state the log holds at most 50 entries, whichever
\* operation prepended the latest entry.
C9_LogAtMostFifty == Len(logs) <= 50

\* C10: in every reachable state every agent position and every building
\* position (x, y) satisfies 0 <= x < width and 0 <= y < height.
C10_PositionsInBounds ==
  /\ \A i \in DOMAIN npcs :
       /\ 0 <= npcs[i].pos.x /\ npcs[i].pos.x < MAP_WIDTH
       /\ 0 <= npcs[i].pos.y /\ npcs[i].pos.y < MAP_HEIGHT
  /\ \A i \in DOMAIN buildings :
       /\ 0 <= buildings[i].pos.x /\ buildings[i].pos.x < MAP_WIDTH
       /\ 0 <= buildings[i].pos.y /\ buildings[i].pos.y < MAP_HEIGHT

\* an agent in the north-east corner of the map drew a wander target beyond
\* the border in both coordinates: the target is clamped to the corner
C10_Witness ==
  /\ lastOp.op = "step"
  /\ \E i \in DOMAIN npcs :
       /\ lastOp.ev[i] = "wander"
       /\ npcs[i].pos = Pos(MAP_WIDTH - 1, 0)
       /\ npcs[i].targetPos = Pos(MAP_WIDTH - 1, 0)

\* C11: the mountain-gather-without-pickaxe fallback is unreachable: no agent
\* without a pickaxe reaches the resolution of a Gathering action whose
\* target tile is Mountain.
C11_NoPickaxeMountainUnreachable ==
  lastOp.op = "step" =>
    \A i \in DOMAIN lastOp.ev : lastOp.ev[i] # "gather_nopick"

\* the Workers of a tick that were Idle without a pickaxe and were not sent to
\* the Base to craft, which the code does exactly when Wood < 10
WoodSeekers ==
  { i \in DOMAIN npcs :
      /\ npcs[i].state = "IDLE"
      /\ npcs[i].role = "WORKER"
      /\ ~npcs[i].pickaxe
      /\ lastOp'.op = "step"
      /\ lastOp'.ev[i] \notin {"seek_base", "stay"} }

BasePositions ==
  { buildings[k].pos : k \in { j \in DOMAIN buildings : buildings[j].structureType = "BASE" } }

sinceArrival == tickCount - SavedTick - 1
loneSite == buildings[Len(buildings)]

\* C13: for a fresh building worked by a single Builder that has arrived at
\* it, resolutions occur every 10 ticks, progress after the k-th resolution
\* is exactly 10 * k, completed stays false after each of the first nine
\* resolutions and becomes true at the tenth, when progress is exactly 100.
C13_TenResolutionsToComplete ==
  LET k == IF sinceArrival < 0 THEN 0
           ELSE IF sinceArrival >= 100 THEN 10
           ELSE sinceArrival \div 10
  IN /\ loneSite.constructionProgress = 10 * k
     /\ loneSite.completed <=> k = 10
     /\ loneSite.completed => loneSite.constructionProgress = 100
     /\ lastOp.op = "step" =>
          /\ lastOp.ev[1] = "arrive_build" <=> sinceArrival = 0
          /\ lastOp.ev[1] = "build_hit" <=>
               (sinceArrival \in 1..99 /\ sinceArrival % 10 = 0)
          /\ lastOp.ev[1] = "build_done" <=> sinceArrival = 100
          /\ lastOp.ev[1] = "build_wait" <=>
               (sinceArrival \in 1..99 /\ sinceArrival % 10 # 0)

\* the tenth resolution has just completed the building
C13_Witness ==
  /\ lastOp.op = "step"
  /\ lastOp.ev[1] = "build_done"
  /\ sinceArrival = 100
  /\ loneSite.constructionProgress = 100
  /\ loneSite.completed
  /\ npcs[1].state = "IDLE"

\* C14: every step increases the tick counter by exactly 1, and
\* placeBuilding, bless and cycleRole never change it, so the tick counter
\* never decreases along any sequence of operations.
C14_TickAdvancesOnlyByStep ==
  [][ /\ lastOp'.op = "step" => tickCount' = tickCount + 1
      /\ lastOp'.op \in {"placeBuilding", "BLESS", "CYCLE_ROLE"} => tickCount' = tickCount
      /\ tickCount' >= tickCount ]_vars

\* a request was served after the game loop had advanced the colony, and a
\* step has run since the colony was started
C14_Witness ==
  /\ lastOp.op \in {"placeBuilding", "BLESS", "CYCLE_ROLE"}
  /\ tickCount > startTick

\* C15: step increases Fate by exactly 1 when the incremented tick counter is
\* a multiple of 100 and leaves Fate unchanged otherwise; with zero agents,
\* 100 steps from tick 0 raise Fate by exactly 1 and change Wood and Stone
\* not at all, Food changing only through the random Food-loss event.
C15_FateEveryHundredTicks ==
  /\ []( (npcs = << >> /\ requests = 0 /\ tickCount = 100) =>
           /\ resources.FATE = 1
           /\ resources.WOOD = 0
           /\ resources.STONE = 0 )
  /\ [][ lastOp'.op = "step" =>
           /\ resources'.FATE =
                resources.FATE + (IF tickCount' % 100 = 0 THEN 1 ELSE 0)
           /\ npcs = << >> =>
                /\ resources'.WOOD = resources.WOOD
                /\ resources'.STONE = resources.STONE
                /\ IF lastOp'.event = "rats"
                   THEN resources'.FOOD = Max(0, resources.FOOD - FOOD_LOSS)
                   ELSE resources'.FOOD = resources.FOOD ]_vars

\* the hundredth step of the colony without agents has just granted Fate
C15_Witness ==
  /\ npcs = << >>
  /\ requests = 0
  /\ lastOp.op = "step"
  /\ tickCount = 100
  /\ resources.FATE = 1

\* C16: weather changes only in a step whose incremented tick counter is a
\* multiple of 500, and then advances Sunny to Rain, Rain to Night, Night to
\* Sunny; in every other step and in every external request weather is
\* unchanged.
C16_WeatherEveryFiveHundredTicks ==
  [][ IF lastOp'.op = "step" /\ tickCount' % 500 = 0
      THEN \/ weather = "SUNNY" /\ weather' = "RAIN"
           \/ weather = "RAIN" /\ weather' = "NIGHT"
           \/ weather = "NIGHT" /\ weather' = "SUNNY"
      ELSE weather' = weather ]_vars

\* the weather has gone round the whole cycle and is Sunny again
C16_Witness ==
  /\ lastOp.op = "step"
  /\ tickCount = 1500
  /\ weather = "SUNNY"
  /\ Len(logs) >= 3
  /\ logs[1] = LogWeather

\* the agents that a request for the entity id addresses
Addressed(id) == { i \in DOMAIN npcs : npcs[i].id = id }

\* C17: cycleRole on an existing agent, whatever its current role (including
\* Explorer) and state, leaves the agent with a role in {Worker, Builder,
\* Farmer, Guard}, state Idle and no target.
C17_CycleRoleYieldsCycleRoleIdle ==
  [][ lastOp'.op = "CYCLE_ROLE" =>
        \A i \in Addressed(lastOp'.id) :
          /\ npcs'[i].role \in {"WORKER", "BUILDER", "FARMER", "GUARD"}
          /\ npcs'[i].state = "IDLE"
          /\ npcs'[i].targetPos = NullPos ]_vars

\* the first agent of a saved colony has just become a Worker by its first
\* cycleRole: it was the Explorer, no saved colony having a Guard
C17_Witness ==
  /\ lastOp.op = "CYCLE_ROLE"
  /\ lastOp.id = npcs[1].id
  /\ requests = 1
  /\ tickCount = SavedTick
  /\ npcs[1].role = "WORKER"
  /\ npcs[1].state = "IDLE"
  /\ npcs[1].targetPos = NullPos

\* the role k places further round the cycle
roleAfter(role, k) ==
  LET at == CHOOSE j \in 1..4 : << "WORKER", "BUILDER", "FARMER", "GUARD" >>[j] = role
  IN << "WORKER", "BUILDER", "FARMER", "GUARD" >>[((at - 1 + k) % 4) + 1]

\* C18: cycleRole maps Worker to Builder, Builder to Farmer, Farmer to Guard
\* and Guard to Worker, so four consecutive cycleRole requests on the same
\* agent return it to its original role when that role is in the cycle.
C18_CycleOfFourRoles ==
  /\ [][ lastOp'.op = "CYCLE_ROLE" =>
           \A i \in Addressed(lastOp'.id) :
             /\ npcs[i].role = "WORKER" => npcs'[i].role = "BUILDER"
             /\ npcs[i].role = "BUILDER" => npcs'[i].role = "FARMER"
             /\ npcs[i].role = "FARMER" => npcs'[i].role = "GUARD"
             /\ npcs[i].role = "GUARD" => npcs'[i].role = "WORKER" ]_vars
  /\ []( tickCount = 0 =>
           \A i \in Addressed(selectedEntityId) :
             /\ npcs[i].role = roleAfter(IF i = 1 THEN "GUARD" ELSE "WORKER", requests)
             /\ requests % 4 = 0 =>
                  npcs[i].role = (IF i = 1 THEN "GUARD" ELSE "WORKER") )

\* four requests in a row have brought a Worker of the genesis colony back to
\* Worker
C18_Witness ==
  /\ tickCount = 0
  /\ requests = 4
  /\ lastOp.op = "CYCLE_ROLE"
  /\ lastOp.id = npcs[2].id
  /\ selectedEntityId = npcs[2].id
  /\ npcs[2].role = "WORKER"
  /\ Len(logs) = 5
  /\ \A j \in 1..4 : logs[j] = LogRole

\* C19: bless on an existing agent with Fate >= 5 deducts exactly 5 Fate and
\* sets the agent's health to min(maxHealth, health + 50), changing no other
\* resource and no other agent; consequently health <= maxHealth holds for
\* every agent in every reachable state.
C19_BlessHealsWithinMaxHealth ==
  /\ [][ ( /\ lastOp'.op = "BLESS"
           /\ resources.FATE >= 5
           /\ Addressed(lastOp'.id) # {} ) =>
         /\ resources' = [resources EXCEPT !.FATE = @ - 5]
         /\ DOMAIN npcs' = DOMAIN npcs
         /\ \A i \in DOMAIN npcs :
              IF i \in Addressed(lastOp'.id)
              THEN LET healed == IF npcs[i].health + 50 > npcs[i].maxHealth
                                 THEN npcs[i].maxHealth
                                 ELSE npcs[i].health + 50
                   IN npcs'[i] = [npcs[i] EXCEPT !.health = healed]
              ELSE npcs'[i] = npcs[i] ]_vars
  /\ [](\A i \in DOMAIN npcs : npcs[i].health <= npcs[i].maxHealth)

\* a wounded agent was blessed and is still below its maximum health, while
\* the other agent stays as wounded as it was
C19_Witness ==
  /\ lastOp.op = "BLESS"
  /\ lastOp.id = npcs[1].id
  /\ npcs[1].health = 80
  /\ npcs[1].maxHealth = 100
  /\ npcs[2].health = 60
  /\ resources.FATE = 4

\* C20: bless with Fate < 5, and bless or cycleRole with an identifier that
\* matches no agent (for example a building identifier), leave resources,
\* agents, buildings, terrain and log unchanged; in particular no Fate is
\* deducted when the agent is not found.
C20_RejectedRequestsChangeNothing ==
  [][ ( \/ lastOp'.op = "BLESS" /\ resources.FATE < 5
        \/ /\ lastOp'.op \in {"BLESS", "CYCLE_ROLE"}
           /\ Addressed(lastOp'.id) = {} ) =>
      UNCHANGED << resources, npcs, buildings, map, logs >> ]_vars

\* bless was requested for the Base while the Fate would have paid for it
C20_Witness ==
  /\ lastOp.op = "BLESS"
  /\ lastOp.id = BaseId
  /\ Addressed(lastOp.id) = {}
  /\ resources.FATE >= 5
  /\ requests = 1

C22_GenesisColony ==
  lastOp.op = "startNewGame" =>
    /\ Len(npcs) = 5
    /\ \A i \in 1..Len(npcs) :
         /\ npcs[i].state = "IDLE"
         /\ npcs[i].targetPos = NullPos
         /\ npcs[i].role = (IF i = 1 THEN "GUARD" ELSE "WORKER")
         /\ Abs(npcs[i].pos.x - MAP_WIDTH \div 2) <= 2
         /\ Abs(npcs[i].pos.y - MAP_HEIGHT \div 2) <= 2
    /\ Len(buildings) = 1
    /\ buildings[1].structureType = "BASE"
    /\ buildings[1].completed
    /\ buildings[1].pos = Pos(MAP_WIDTH \div 2, MAP_HEIGHT \div 2)
    /\ resources = [WOOD |-> 0, STONE |-> 0, FOOD |-> 20, FATE |-> 0]
    /\ tickCount = 0
    /\ weather = "SUNNY"

\* a new game with seed 42 whose agents spawned at the far corners of the
\* spawn area
C22_Witness ==
  /\ lastOp.op = "startNewGame"
  /\ lastOp.x = 42
  /\ Len(npcs) = 5
  /\ npcs[1].role = "GUARD"
  /\ npcs[1].pos = Pos(MAP_WIDTH \div 2 - 2, MAP_HEIGHT \div 2 - 2)
  /\ npcs[2].pos = Pos(MAP_WIDTH \div 2 + 2, MAP_HEIGHT \div 2 + 2)

\* the tile the generator drew for the cell (x, y) of the new game's map
rawTile(seed, x, y) ==
  tileOfDraw(rngStates(seed, y * MAP_WIDTH + x + 1)[y * MAP_WIDTH + x + 1])

CentreBlock ==
  ((MAP_WIDTH \div 2 - 3)..(MAP_WIDTH \div 2 + 3))
    \X ((MAP_HEIGHT \div 2 - 3)..(MAP_HEIGHT \div 2 + 3))

\* C23: for every seed (42 included), the terrain produced at genesis has
\* the 7x7 block centred on (width/2, height/2) entirely Grass, whatever the
\* generator drew for those cells.
C23_CentreBlockIsGrass ==
  lastOp.op = "startNewGame" =>
    \A c \in CentreBlock : map[c[2]][c[1]] = "GRASS"

\* seed 42: the generator drew a tile other than Grass for a cell of the
\* block, and beside the block the map has a tile other than Grass
C23_Witness ==
  /\ lastOp.op = "startNewGame"
  /\ lastOp.x = 42
  /\ \E c \in CentreBlock :
       /\ rawTile(42, c[1], c[2]) # "GRASS"
       /\ map[c[2]][c[1]] = "GRASS"
  /\ \E y \in DOMAIN map : \E x \in DOMAIN map[y] : map[y][x] # "GRASS"

\* state' = (state * 9301 + 49297) mod 233280, the product taken in two parts
modNext(a) == ((((a % 233280) * 93) % 233280) * 100 + (a % 233280) + 49297) % 233280

\* C24: for every integer seed, every draw of the seeded generator leaves
\* its state in 0..233279 and returns a value in [0,1), following
\* state' = (state * 9301 + 49297) mod 233280.
C24_DrawsStayInRange ==
  lastOp.op = "startNewGame" =>
    LET n == MAP_WIDTH * MAP_HEIGHT
        states == rngStates(lastOp.x, n)
    IN \A k \in 1..n :
         /\ states[k] \in 0..233279
         /\ states[k] = modNext(IF k = 1 THEN lastOp.x ELSE states[k - 1])

\* the agents whose branch in the tick that led to this state is among evs
Took(evs) == { i \in DOMAIN lastOp.ev : lastOp.ev[i] \in evs }

\* C25: within one step the random world event is applied before any agent is
\* evaluated: when the Food-loss event fires in a tick in which agents add
\* Food (Farming +5, apple +3), the tick's final Food equals
\* max(0, Food at tick start - 2) plus the agents' additions.
C25_FoodLossBeforeAgents ==
  [][ (lastOp'.op = "step" /\ lastOp'.event = "rats") =>
        \E apples \in 0..Cardinality(Took({"gather_wood"})') :
          resources'.FOOD =
            (IF resources.FOOD - 2 > 0 THEN resources.FOOD - 2 ELSE 0)
            + 5 * Cardinality(Took({"farm_stay", "farm_leave"})')
            + 3 * apples ]_vars

\* agent i is in state st with a timer that runs out in the coming tick
Resolves(i, st) == npcs[i].state = st /\ npcs[i].actionTimer <= 1

\* the agents that resolve Gathering on the tile t in the coming tick
GatherersOn(t) ==
  { i \in DOMAIN npcs : Resolves(i, "GATHERING") /\ npcs[i].targetPos = t }

Walkers ==
  { i \in DOMAIN npcs : /\ npcs[i].state = "MOVING"
                        /\ npcs[i].targetPos # NullPos
                        /\ distance(npcs[i].pos, npcs[i].targetPos) > 1 }

\* the step of agent i along the x-axis, and along the y-axis
stepX(i) == [npcs[i].pos EXCEPT !.x = @ + Sign(npcs[i].targetPos.x - @)]
stepY(i) == [npcs[i].pos EXCEPT !.y = @ + Sign(npcs[i].targetPos.y - @)]

\* C27 as stated: when a Moving agent is at Manhattan distance > 1 from its
\* target and |dx| = |dy|, the step it takes is along the x-axis (ties favour
\* x); when |dx| # |dy| it is along the axis of larger magnitude.
C27_TiesFavourX ==
  [][ lastOp'.op = "step" =>
        \A i \in Walkers :
          LET dx == npcs[i].targetPos.x - npcs[i].pos.x
              dy == npcs[i].targetPos.y - npcs[i].pos.y
          IN npcs'[i].pos = IF Abs(dx) >= Abs(dy) THEN stepX(i) ELSE stepY(i) ]_vars

\* C27 amended: when a Moving agent is at Manhattan distance > 1 from its
\* target and |dx| = |dy|, the step it takes is along the y-axis (ties favour
\* y); when |dx| # |dy| it is along the axis of larger magnitude.
C27_TiesFavourY ==
  [][ lastOp'.op = "step" =>
        \A i \in Walkers :
          LET dx == npcs[i].targetPos.x - npcs[i].pos.x
              dy == npcs[i].targetPos.y - npcs[i].pos.y
          IN npcs'[i].pos = IF Abs(dx) > Abs(dy) THEN stepX(i) ELSE stepY(i) ]_vars

\* an agent has just taken a step and stands on the east border of the map
\* with |dx| = |dy| + 1: a step along x would have come from outside the
\* map, so the step was along y, from a tile with |dx| = |dy|
C27_Witness ==
  /\ lastOp.op = "step"
  /\ \E i \in DOMAIN npcs :
       /\ lastOp.ev[i] = "move"
       /\ npcs[i].pos.x = MAP_WIDTH - 1
       /\ Abs(npcs[i].targetPos.x - npcs[i].pos.x)
            = Abs(npcs[i].targetPos.y - npcs[i].pos.y) + 1

\* the names of the branches that resolve an arrival
ArrivalEvents ==
  { "arrive_craft", "arrive_build", "arrive_farm", "arrive_gather", "arrive_idle" }

\* C28: while an agent is Moving toward its target at Manhattan distance
\* d > 1, each tick changes exactly one of its coordinates by exactly 1 and
\* reduces the distance by exactly 1, the agent staying Moving toward the same
\* target; so it reaches distance <= 1 after d - 1 ticks, and a Moving agent
\* at distance <= 1 resolves its arrival in the tick that follows, which
\* leaves it in a state other than Moving and where it stands.
C28_EachStepShortensTheWayByOne ==
  [][ lastOp'.op = "step" =>
        \A i \in DOMAIN npcs :
          LET n == npcs[i]
              m == npcs'[i]
          IN /\ i \in Walkers
                => /\ Abs(m.pos.x - n.pos.x) + Abs(m.pos.y - n.pos.y) = 1
                   /\ (m.pos.x = n.pos.x) # (m.pos.y = n.pos.y)
                   /\ distance(m.pos, n.targetPos) = distance(n.pos, n.targetPos) - 1
                   /\ m.state = "MOVING"
                   /\ m.targetPos = n.targetPos
                   /\ lastOp'.ev[i] = "move"
             /\ ( /\ n.state = "MOVING"
                  /\ n.targetPos # NullPos
                  /\ i \notin Walkers )
                => /\ lastOp'.ev[i] \in ArrivalEvents
                   /\ m.state # "MOVING"
                   /\ m.pos = n.pos ]_vars

\* an agent that set out from a corner of the map, the longest way to the
\* Base, has resolved its arrival beside the Base: the ticks since the start
\* are the distance it had to go
C28_Witness ==
  /\ lastOp.op = "step"
  /\ tickCount - SavedTick = (MAP_WIDTH - 1 - Center.x) + Center.y
  /\ \E i \in DOMAIN npcs :
       /\ lastOp.ev[i] \in ArrivalEvents
       /\ distance(npcs[i].pos, Center) = 1

\* the branches of an agent's tick that write nothing the other agents read
ReadOnlyEvents ==
  ArrivalEvents \cup
  { "stay", "wander", "seek_site", "seek_farm", "seek_forest", "seek_mountain",
    "seek_base", "no_target", "move", "craft_wait", "build_wait", "farm_wait",
    "gather_wait", "gather_nopick", "none" }

\* the agents that resolve their arrival in the coming tick
Arrivers ==
  { i \in DOMAIN npcs : /\ npcs[i].state = "MOVING"
                        /\ npcs[i].targetPos # NullPos
                        /\ distance(npcs[i].pos, npcs[i].targetPos) <= 1 }

\* C29: on arrival (Moving, distance to target <= 1) the next state is chosen
\* by the first matching rule: Crafting with timer 30 if the target is the
\* Base position, the role is Worker, no pickaxe and Wood >= 10; else
\* ConstructingSite with timer 10 if the target is an incomplete building and
\* the role is Builder; else Farming with timer 50 if the target is a
\* completed Farm and the role is Farmer; else Gathering with timer 20 if the
\* target tile is Forest or Mountain; else Idle with the target cleared.  The
\* agent's position does not change in that tick.  (Wood, buildings and tiles
\* are those of the start of the tick when no agent earlier in the list wrote
\* to them.)
C29_ArrivalByFirstMatchingRule ==
  [][ lastOp'.op = "step" =>
        \A i \in Arrivers :
          (\A j \in 1..(i - 1) : lastOp'.ev[j] \in ReadOnlyEvents) =>
            LET n == npcs[i]
                m == npcs'[i]
                t == n.targetPos
                here == { b \in Range(buildings) : b.pos = t }
                tile == map[t.y][t.x]
            IN /\ m.pos = n.pos
               /\ IF /\ \E b \in here : b.structureType = "BASE"
                     /\ n.role = "WORKER" /\ ~n.pickaxe /\ resources.WOOD >= 10
                  THEN m.state = "CRAFTING" /\ m.actionTimer = 30
                  ELSE IF (\E b \in here : ~b.completed) /\ n.role = "BUILDER"
                  THEN m.state = "BUILDING" /\ m.actionTimer = 10
                  ELSE IF /\ \E b \in here : b.structureType = "FARM" /\ b.completed
                          /\ n.role = "FARMER"
                  THEN m.state = "FARMING" /\ m.actionTimer = 50
                  ELSE IF tile \in { "FOREST", "MOUNTAIN" }
                  THEN m.state = "GATHERING" /\ m.actionTimer = 20
                  ELSE m.state = "IDLE" /\ m.targetPos = NullPos ]_vars

\* a Builder has arrived at a site that stands on a Forest tile, and works on
\* the site: the rule of the site came before the rule of the tile
C29_Witness ==
  /\ lastOp.op = "step"
  /\ lastOp.ev[1] = "arrive_build"
  /\ npcs[1].state = "BUILDING"
  /\ npcs[1].actionTimer = 10
  /\ map[npcs[1].targetPos.y][npcs[1].targetPos.x] = "FOREST"
  /\ \E b \in Range(buildings) : b.pos = npcs[1].targetPos /\ ~b.completed

\* the Wood agent i finds when its turn comes in the tick that led to the
\* primed state: the Wood of the start of the tick, with what the agents
\* before it in the list gathered and spent
woodSeenBy(i) ==
  resources.WOOD
  + 5 * Cardinality({ j \in 1..(i - 1) : lastOp'.ev[j] = "gather_wood" })
  - 10 * Cardinality({ j \in 1..(i - 1) : lastOp'.ev[j] = "craft_ok" })

\* C30: an agent that arrived to craft waits 30 ticks, its actionTimer going
\* down by one a tick; in the tick in which the timer reaches 0, if Wood >= 10
\* at that moment, Wood decreases by exactly 10 and the agent gains the
\* pickaxe; otherwise Wood is unchanged and the agent gains no pickaxe; in
\* both cases the agent is Idle at the end of that tick.  A pickaxe is gained
\* in no other way and is never lost.
C30_CraftingResolution ==
  [][ /\ \A i \in DOMAIN npcs :
           LET n == npcs[i]
               m == npcs'[i]
           IN /\ n.pickaxe => m.pickaxe
              /\ (~n.pickaxe /\ m.pickaxe)
                 => /\ lastOp'.op = "step"
                    /\ Resolves(i, "CRAFTING")
                    /\ lastOp'.ev[i] = "craft_ok"
              /\ (lastOp'.op = "step" /\ n.state = "CRAFTING")
                 => IF n.actionTimer > 1
                    THEN /\ m.state = "CRAFTING"
                         /\ m.actionTimer = n.actionTimer - 1
                         /\ m.pickaxe = n.pickaxe
                         /\ lastOp'.ev[i] = "craft_wait"
                    ELSE /\ m.state = "IDLE"
                         /\ IF woodSeenBy(i) >= 10
                            THEN m.pickaxe /\ lastOp'.ev[i] = "craft_ok"
                            ELSE m.pickaxe = n.pickaxe /\ lastOp'.ev[i] = "craft_fail"
      /\ lastOp'.op = "step"
         => resources'.WOOD = resources.WOOD
              + 5 * Cardinality(Took({"gather_wood"})')
              - 10 * Cardinality(Took({"craft_ok"})') ]_vars

\* thirty ticks after two Workers arrived at the Base together, with Wood for
\* one pickaxe and a half, the first has its pickaxe and the second has none;
\* both are Idle and 5 Wood are left
C30_Witness ==
  /\ lastOp.op = "step"
  /\ tickCount = SavedTick + 1 + 30
  /\ lastOp.ev[1] = "craft_ok"
  /\ lastOp.ev[2] = "craft_fail"
  /\ npcs[1].pickaxe /\ npcs[1].state = "IDLE"
  /\ ~npcs[2].pickaxe /\ npcs[2].state = "IDLE"
  /\ resources.WOOD = 5

\* C31: whenever a Gathering agent's actionTimer reaches 0, at the end of
\* that tick the agent is Idle and its target is cleared, whatever the kind
\* of the target tile and whether or not the agent holds a pickaxe.
C31_GatheringEndsIdleWithoutTarget ==
  [][ lastOp'.op = "step" =>
        \A i \in DOMAIN npcs :
          Resolves(i, "GATHERING")
          => /\ npcs'[i].state = "IDLE"
             /\ npcs'[i].targetPos = NullPos ]_vars

\* every cell of the grid
Cells == { Pos(x, y) : x \in 0..(MAP_WIDTH - 1), y \in 0..(MAP_HEIGHT - 1) }

\* the names of the branches that end a Gathering
GatherEvents ==
  { "gather_wood", "gather_stone", "gather_nothing", "gather_nopick", "gather_none" }

\* C32: a Gathering resolution on a Forest tile adds exactly 5 Wood (plus 3
\* Food when an apple is found) and may turn that tile to Grass; on a
\* Mountain tile with a pickaxe it adds exactly 5 Stone and may turn that tile
\* to Floor; on any other tile kind (for example a tile already harvested to
\* Grass by another agent) it adds no resource and changes no tile.  In the
\* totals of a tick, crafting takes 10 Wood, farming adds 5 Food and the rats
\* take 2 Food.
C32_GatheringYields ==
  [][ lastOp'.op = "step" =>
        LET ev == lastOp'.ev
            wood == Took({"gather_wood"})'
            stone == Took({"gather_stone"})'
            eaten(f) == IF lastOp'.event = "rats"
                        THEN (IF f - 2 > 0 THEN f - 2 ELSE 0) ELSE f
        IN /\ \A i \in DOMAIN npcs :
                /\ ev[i] \in GatherEvents => Resolves(i, "GATHERING")
                /\ (Resolves(i, "GATHERING") /\ npcs[i].targetPos # NullPos)
                   => LET t == npcs[i].targetPos
                          tile == map[t.y][t.x]
                          before == { j \in GatherersOn(t) : j < i }
                      IN /\ ev[i] = "gather_wood"
                            => tile = "FOREST" /\ map'[t.y][t.x] \in { "FOREST", "GRASS" }
                         /\ ev[i] = "gather_stone"
                            => /\ tile = "MOUNTAIN" /\ npcs[i].pickaxe
                               /\ map'[t.y][t.x] \in { "MOUNTAIN", "FLOOR" }
                         /\ (tile = "FOREST" /\ before = {}) => ev[i] = "gather_wood"
                         /\ (tile = "MOUNTAIN" /\ npcs[i].pickaxe /\ before = {})
                            => ev[i] = "gather_stone"
                         /\ tile \notin { "FOREST", "MOUNTAIN" } => ev[i] = "gather_nothing"
                         /\ ev[i] = "gather_nothing" => map'[t.y][t.x] \notin { "FOREST", "MOUNTAIN" }
           /\ resources'.WOOD = resources.WOOD + 5 * Cardinality(wood)
                                  - 10 * Cardinality(Took({"craft_ok"})')
           /\ resources'.STONE = resources.STONE + 5 * Cardinality(stone)
           /\ \E apples \in 0..Cardinality(wood) :
                resources'.FOOD =
                  eaten(resources.FOOD + 3 * apples
                        + 5 * Cardinality(Took({"farm_stay", "farm_leave"})'))
           /\ \A c \in Cells :
                map'[c.y][c.x] # map[c.y][c.x]
                => \/ /\ map[c.y][c.x] = "FOREST" /\ map'[c.y][c.x] = "GRASS"
                      /\ \E i \in wood : npcs[i].targetPos = c
                   \/ /\ map[c.y][c.x] = "MOUNTAIN" /\ map'[c.y][c.x] = "FLOOR"
                      /\ \E i \in stone : npcs[i].targetPos = c ]_vars

\* an agent with a pickaxe has mined the Mountain tile it stands on: 5 Stone
\* and the tile turned to Floor, while the Worker beside it felled its tree
C32_Witness ==
  /\ lastOp.op = "step"
  /\ lastOp.ev[1] = "gather_stone"
  /\ lastOp.ev[2] = "gather_wood"
  /\ resources.STONE = 5
  /\ map[npcs[1].pos.y][npcs[1].pos.x] = "FLOOR"
  /\ map[npcs[2].pos.y][npcs[2].pos.x] = "GRASS"

\* the number of cells of the kind tt on the map m
tilesOf(m, tt) == Cardinality({ c \in Cells : m[c.y][c.x] = tt })

\* C39: a terrain cell changes only from Forest to Grass or from Mountain to
\* Floor, and only in a step, at the target tile of an agent resolving
\* Gathering in that tick; placeBuilding, bless and cycleRole never change
\* terrain, so the numbers of Forest and of Mountain tiles never increase and
\* Water, Sand, Grass and Floor cells never change.
C39_TerrainChangesOnlyByGathering ==
  [][ /\ \A c \in Cells :
           map'[c.y][c.x] # map[c.y][c.x]
           => /\ lastOp'.op = "step"
              /\ \E i \in GatherersOn(c) : lastOp'.ev[i] \in GatherEvents
              /\ \/ map[c.y][c.x] = "FOREST" /\ map'[c.y][c.x] = "GRASS"
                 \/ map[c.y][c.x] = "MOUNTAIN" /\ map'[c.y][c.x] = "FLOOR"
      /\ lastOp'.op \in { "placeBuilding", "BLESS", "CYCLE_ROLE" } => map' = map
      /\ tilesOf(map', "FOREST") <= tilesOf(map, "FOREST")
      /\ tilesOf(map', "MOUNTAIN") <= tilesOf(map, "MOUNTAIN")
      /\ \A c \in Cells :
           map[c.y][c.x] \in { "WATER", "SAND", "GRASS", "FLOOR" }
           => map'[c.y][c.x] = map[c.y][c.x] ]_vars

\* after a request of the player that was carried out, the Worker has felled
\* its tree: the tile it stands on is Grass, and the map has fewer Forest
\* tiles than the one the colony began with
C39_Witness ==
  /\ lastOp.op = "step"
  /\ requests > 0
  /\ lastOp.ev[2] = "gather_wood"
  /\ map[npcs[2].pos.y][npcs[2].pos.x] = "GRASS"
  /\ \E seed \in Seeds :
       tilesOf(map, "FOREST") < tilesOf(generateMap(MAP_WIDTH, MAP_HEIGHT, seed), "FOREST")

\* C33: a Farming agent adds exactly 5 Food each time its actionTimer reaches
\* 0: the first time 50 ticks after arrival at the farm (arrival sets the
\* timer to 50), then every 100 ticks while it stays Farming (a resolution
\* sets the timer to 100, and every other tick takes one off); it leaves
\* Farming for Idle only at such a resolution (or through cycleRole), never
\* between resolutions.
C33_FarmingHarvests ==
  [][ /\ \A i \in DOMAIN npcs :
           LET n == npcs[i]
               m == npcs'[i]
           IN /\ (lastOp'.op = "step" /\ lastOp'.ev[i] = "arrive_farm")
                 => m.state = "FARMING" /\ m.actionTimer = 50
              /\ n.state = "FARMING"
                 => IF lastOp'.op = "step"
                    THEN IF n.actionTimer > 1
                         THEN /\ m.state = "FARMING"
                              /\ m.actionTimer = n.actionTimer - 1
                              /\ lastOp'.ev[i] = "farm_wait"
                         ELSE /\ m.state \in { "FARMING", "IDLE" }
                              /\ m.actionTimer = 100
                              /\ lastOp'.ev[i] \in { "farm_stay", "farm_leave" }
                    ELSE m.state # "FARMING"
                         => /\ lastOp'.op = "CYCLE_ROLE"
                            /\ lastOp'.id = n.id
                            /\ m.state = "IDLE"
      /\ lastOp'.op = "step"
         => \E apples \in 0..Cardinality(Took({"gather_wood"})') :
              LET harvests == { i \in DOMAIN npcs : Resolves(i, "FARMING") }
                  f == resources.FOOD + 5 * Cardinality(harvests) + 3 * apples
              IN resources'.FOOD =
                   IF lastOp'.event = "rats" THEN (IF f - 2 > 0 THEN f - 2 ELSE 0) ELSE f
      /\ lastOp'.op # "step" => resources'.FOOD = resources.FOOD ]_vars

\* the first Farmer has brought in its second harvest, 50 + 100 ticks after
\* it arrived at the farm, and waits for the third
C33_Witness ==
  /\ lastOp.op = "step"
  /\ tickCount = SavedTick + 1 + 50 + 100
  /\ lastOp.ev[1] = "farm_stay"
  /\ npcs[1].state = "FARMING"
  /\ npcs[1].actionTimer = 100
  /\ resources.FOOD >= START_FOOD + 2 * 5 - 2

\* agent i leaves ConstructingSite in the step from the unprimed to the
\* primed state
LeavesSite(i) == npcs[i].state = "BUILDING" /\ npcs'[i].state # "BUILDING"

\* agent i leaves in a tick in which its actionTimer reached 0 and the
\* building at its target is completed, and it is Idle afterwards
LeavesOnCompletion(i) ==
  /\ lastOp'.op = "step"
  /\ npcs[i].actionTimer <= 1
  /\ npcs'[i].state = "IDLE"
  /\ \E b \in Range(buildings') : b.pos = npcs[i].targetPos /\ b.completed

\* every building is completed and no Builder is in ConstructingSite
SitesDone ==
  /\ \A k \in DOMAIN buildings : buildings[k].completed
  /\ \A i \in DOMAIN npcs : npcs[i].role = "BUILDER" => npcs[i].state # "BUILDING"

\* C34 as stated: a Builder in ConstructingSite leaves that state (for Idle)
\* only in a tick in which its actionTimer reached 0 and the building at its
\* target is completed.
C34_LeavesSiteOnlyOnCompletion ==
  [][ \A i \in DOMAIN npcs : LeavesSite(i) => LeavesOnCompletion(i) ]_vars

\* C34 amended: a Builder in ConstructingSite leaves that state (for Idle)
\* only in a tick in which its actionTimer reached 0 and the building at its
\* target is completed, or through cycleRole; if no external request is
\* issued and at least one agent has role Builder, every incomplete building
\* is eventually completed and every Builder in ConstructingSite eventually
\* returns to Idle.
C34_SitesGetBuilt ==
  /\ [][ \A i \in DOMAIN npcs :
           LeavesSite(i)
           => \/ LeavesOnCompletion(i)
              \/ /\ lastOp'.op = "CYCLE_ROLE"
                 /\ lastOp'.id = npcs[i].id
                 /\ npcs'[i].state = "IDLE" ]_vars
  /\ [](( \E i \in DOMAIN npcs : npcs[i].role = "BUILDER" )
          => <>( requests > 0 \/ SitesDone ))

\* with no request made, the Builder that set out from the corner of the map
\* has raised the Farm from half its progress to completion and is Idle
C34_Witness ==
  /\ requests = 0
  /\ lastOp.op = "step"
  /\ lastOp.ev[1] = "build_done"
  /\ npcs[1].role = "BUILDER"
  /\ npcs[1].state = "IDLE"
  /\ \E b \in Range(buildings) : b.structureType = "FARM" /\ b.completed
  /\ SitesDone

\* the agent the last request was made for
requested(i) == lastOp.op = "CYCLE_ROLE" /\ lastOp.ok /\ lastOp.id = npcs[i].id

\* C35: in every reachable state an agent in ConstructingSite has role
\* Builder, an agent in Farming has role Farmer and an agent in Crafting has
\* role Worker, whatever cycleRole requests were made between the ticks.
C35_WorkStatesMatchRoles ==
  \A i \in DOMAIN npcs :
    /\ npcs[i].state = "BUILDING" => npcs[i].role = "BUILDER"
    /\ npcs[i].state = "FARMING" => npcs[i].role = "FARMER"
    /\ npcs[i].state = "CRAFTING" => npcs[i].role = "WORKER"

\* a Builder that had arrived at its site and begun to build (its timer is
\* still that of a build increment) was made a Farmer by cycleRole and is
\* Idle, while the other agent goes on in the state its own role allows
C35_Witness ==
  /\ requested(1)
  /\ npcs[1].role = "FARMER"
  /\ npcs[1].state = "IDLE"
  /\ npcs[1].actionTimer = BUILD_TICKS
  /\ \E b \in Range(buildings) :
       ~b.completed /\ distance(npcs[1].pos, b.pos) <= 1

\* the events of an Idle agent that sets out
SetOutEvents ==
  { "wander", "seek_site", "seek_farm", "seek_forest", "seek_mountain",
    "seek_base" }

\* C36: in every reachable state every agent whose state is not Idle has a
\* target set, so no tick takes the branch of a Moving agent with no target.
C36_BusyAgentsHaveTargets ==
  /\ \A i \in DOMAIN npcs :
       npcs[i].state # "IDLE" => npcs[i].targetPos # NullPos
  /\ lastOp.op = "step" => Took({ "no_target" }) = {}

\* an agent that a cycleRole request left Idle with no target set out again
\* in the tick that followed, Moving with a target
C36_Witness ==
  /\ requests > 0
  /\ lastOp.op = "step"
  /\ \E i \in Took(SetOutEvents) :
       /\ npcs[i].state = "MOVING"
       /\ npcs[i].targetPos # NullPos
  /\ \E i \in DOMAIN npcs :
       /\ npcs[i].state \in { "BUILDING", "CRAFTING", "GATHERING", "FARMING" }
       /\ npcs[i].targetPos # NullPos

\* position p is a cell of the map as the state holds it
onMap(p) == p.y \in DOMAIN map /\ p.x \in DOMAIN map[p.y]

\* C37: in every reachable state every agent's target, when set, lies inside
\* the grid (0 <= x < width, 0 <= y < height), so the terrain lookups at the
\* target, on arrival and when a Gathering resolves, read a cell of the map.
C37_TargetsInsideGrid ==
  \A i \in DOMAIN npcs :
    npcs[i].targetPos # NullPos =>
      /\ ~outOfBounds(npcs[i].targetPos.x, npcs[i].targetPos.y)
      /\ onMap(npcs[i].targetPos)

\* an agent Idle in the north-east corner of the map drew a wander target,
\* clamped to the grid, within a step of the corner; the tick after, the
\* arrival there looked the terrain at the target up and found plain ground
C37_Witness ==
  /\ lastOp.op = "step"
  /\ \E i \in Took({ "arrive_idle" }) :
       /\ npcs[i].pos = Pos(MAP_WIDTH - 1, 0)
       /\ npcs[i].state = "IDLE"
       /\ npcs[i].targetPos = NullPos

\* the buildings that stand at position p
standingAt(p) == { k \in DOMAIN buildings : buildings[k].pos = p }

\* C38: in every reachable state no two buildings occupy the same position,
\* so looking a building up by an agent's target position identifies at most
\* one building.
C38_OneBuildingPerPosition ==
  /\ \A j, k \in DOMAIN buildings :
       buildings[j].pos = buildings[k].pos => j = k
  /\ \A i \in DOMAIN npcs :
       npcs[i].targetPos # NullPos =>
         Cardinality(standingAt(npcs[i].targetPos)) <= 1

\* a building was requested on the very site a Builder is at work on and was
\* refused, the Base and the site standing as they were
C38_Witness ==
  /\ lastOp.op = "placeBuilding"
  /\ ~lastOp.ok
  /\ lastOp.why = "collision"
  /\ Len(buildings) >= 2
  /\ \E i \in DOMAIN npcs :
       /\ npcs[i].state = "BUILDING"
       /\ npcs[i].targetPos = Pos(lastOp.x, lastOp.y)
       /\ Cardinality(standingAt(npcs[i].targetPos)) = 1

====
